---- MODULE Spec2Model ----
(***************************************************************************)
(* Verification model of unsubmail: the sender analysis engine             *)
(* (src/domain/analysis.rs), the Gmail header fetch pipeline               *)
(* (src/infrastructure/google/gmail_api.rs, src/cli/scan.rs), the IMAP     *)
(* header fetch and the grouping by sender                                 *)
(* (src/infrastructure/imap/fetch.rs), the planner (src/domain/planner.rs) *)
(* and the interactive selection and cleanup (src/cli/interactive.rs).     *)
(*                                                                         *)
(* Strings are sequences of tokens.  A token stands for a run of           *)
(* characters that the code only ever looks at as a whole ("<", ">",       *)
(* "https://", "mailto:", a keyword, ...); the alphabets below are chosen  *)
(* so that no keyword can arise across a token boundary.  Option<T> is a   *)
(* sequence of length 0 (None) or 1 (Some).  f32 values are integers in    *)
(* units of 2^-26 and every addition rounds to 24 significant bits.        *)
(***************************************************************************)
EXTENDS Integers, Sequences, FiniteSets, Bags

VARIABLES
    \* ---- calculate_heuristic_score / analyze_sender call ----
    apc,                    \* "idle", "score" / "scored", "analyze" / "analyzed"
    email,                  \* sender address (token sequence)
    has_unsubscribe,        \* argument of calculate_heuristic_score
    message_count,          \* argument message_count
    list_unsubscribe,       \* Option<String>: List-Unsubscribe header
    list_unsubscribe_post,  \* Option<String>: List-Unsubscribe-Post header
    score,                  \* returned f32 (units of 2^-26)
    sender,                 \* returned SenderInfo (Option)
    action,                 \* Option<ActionType> returned by plan_action
    offered,                \* Option<bool>: sender passed select_senders' filter
    issued,                 \* prompts answered and requests issued by
                            \* execute_cleanup, in order
    \* ---- GmailClient::batch_get_headers call ----
    call,                   \* "idle", "running", "returned"
    message_ids,            \* the message_ids slice
    tasks,                  \* number of spawned tasks per local state
    permits,                \* available permits of the semaphore
    result,                 \* Option<Result<Vec<MessageHeaders>>>
    fault,                  \* Option: the error the API answers with during
                            \* this call (None: any of ErrorTexts)
    \* ---- scan_inbox (Gmail) / fetch_all_headers (IMAP) ----
    scan_pc,                \* "idle", "list", "fetch", "done", "failed"
    path,                   \* "gmail" or "imap"
    max_messages,           \* scan_inbox argument
    batch_size,             \* chunk size
    all_message_ids,        \* number of ids listed so far (ids are 1..n)
    next_chunk,             \* first id of the next chunk
    all_headers,            \* headers collected so far (sequence of ids)
    scan_error,             \* Option: where the scan failed
    \* ---- group_by_sender and the analysis of scan_inbox (interactive) ----
    gpc,                    \* "idle", "group", "reduce", "panicked",
                            \* "grouped", "analyzed", "planned"
    group_input,            \* the headers handed to group_by_sender
    parts,                  \* partial maps of the parallel fold, in order
    grouped,                \* the returned HashMap<String, Vec<MessageHeader>>
    senders,                \* the SenderInfo of every group, by email
    plans,                  \* the CleanupAction of every sender, by email
    \* ---- extract_email and format_uid_set called on their own ----
    upc,                    \* "idle", "extract", "extracted", "format", "formatted"
    from_header,            \* argument of extract_email
    normalized,             \* Option: what extract_email did
    uids,                   \* argument of format_uid_set
    overflow_checks,        \* whether the build checks integer overflow
    uid_set,                \* Option: what format_uid_set did
    \* ---- delete_messages / move_to_spam (IMAP actions) ----
    ipc,                    \* "idle", "called", "select", "copy", "store",
                            \* "expunge", "count", "returned", "panicked"
    imap_fn,                \* "delete_messages" or "move_to_spam"
    imap_uids,              \* the uids argument
    imap_uid_set,           \* let uid_set = format_uid_set(uids)
    commands,               \* the IMAP commands issued on the session, in order
    imap_result,            \* Option: the returned Result<usize>
    \* ---- fetch_headers_batch (IMAP) ----
    fpc,                    \* "idle", "called", "stream", "returned", "panicked"
    fetch_uids,             \* the uids argument
    responses,              \* the FETCH responses the server sends, in order
    cursor,                 \* responses read from the stream so far
    headers,                \* let mut headers = Vec::new()
    warnings,               \* the tracing::warn! lines written
    fetch_error,            \* Option: the call that failed
    fetch_result,           \* Option: the returned Result<Vec<MessageHeader>>
    \* ---- select_senders on a list of senders ----
    spc,                    \* "idle", "called", "prompt", "returned"
    sel_senders,            \* the senders argument
    sorted,                 \* the filtered senders, sorted by score
    options,                \* the option lines of the MultiSelect prompt
    selected_strs,          \* the option lines the user picked
    chosen,                 \* positions in options of the picked lines
    selected,               \* Option: the returned Result<Vec<SenderInfo>>
    \* ---- Workflow::cleanup_sender ----
    wpc,                    \* "idle", "unsubscribe", "block", "delete", "done"
    w_sender,               \* the sender argument
    plan,                   \* let plan = planner::plan_cleanup(sender)
    cleanup_result,         \* let mut result = CleanupResult { ... }
    post_outcome,           \* what the unsubscribe step did
    filter_outcome,         \* what the block step did
    \* ---- the batches of scan_inbox and their spawned tasks ----
    ppc,                    \* "idle", "loop", "await", "done"
    listed,                 \* number of ids in all_message_ids (the ids are 1..listed)
    handed,                 \* the chunks handed to batch_get_headers, in order
    progress,               \* per handed chunk: its tasks not yet started, in flight, ended
    collected               \* all_headers.len()

analysisVars == <<apc, email, has_unsubscribe, message_count, list_unsubscribe,
                  list_unsubscribe_post, score, sender, action, offered,
                  issued>>
batchVars == <<call, message_ids, tasks, permits, result, fault>>
scanVars == <<scan_pc, path, max_messages, batch_size, all_message_ids,
              next_chunk, all_headers, scan_error>>
groupVars == <<gpc, group_input, parts, grouped, senders, plans>>
utilVars == <<upc, from_header, normalized, uids, overflow_checks, uid_set>>
imapVars == <<ipc, imap_fn, imap_uids, imap_uid_set, commands, imap_result>>
fetchVars == <<fpc, fetch_uids, responses, cursor, headers, warnings, fetch_error, fetch_result>>
selectVars == <<spc, sel_senders, sorted, options, selected_strs, chosen, selected>>
workflowVars == <<wpc, w_sender, plan, cleanup_result, post_outcome, filter_outcome>>
pipeVars == <<ppc, listed, handed, progress, collected>>
vars == <<analysisVars, batchVars, scanVars, groupVars, utilVars, imapVars,
          fetchVars, selectVars, workflowVars, pipeVars>>

None == << >>
Some(x) == <<x>>

----------------------------------------------------------------------------
(* Bounds of the model *)

MaxParts == 3            \* fragments concatenated into a List-Unsubscribe header
MaxPostLen == 2          \* tokens of a List-Unsubscribe-Post header
MaxEmailLen == 2         \* tokens of a sender address
MaxMessageCount == 35    \* largest message_count
MaxCleanupParts == 2     \* fragments of a header of a sender that is cleaned
MaxActionUids == 2        \* UIDs handed to delete_messages / move_to_spam
MaxResponses == 3        \* FETCH responses of one fetch_headers_batch call
MaxSelectSenders == 2    \* senders handed to select_senders
MaxWorkflowMessages == 2 \* messages of the sender handed to cleanup_sender
MaxUidListLen == 3       \* UIDs handed to format_uid_set
MaxFromLen == 3          \* tokens of a From string handed to extract_email
MaxHeaders == 3          \* headers handed to group_by_sender
MaxChunks == 3           \* pieces the parallel fold splits its input into
MaxBatch == 3            \* distinct ids handed to batch_get_headers
MaxGateBatch == 11       \* equal ids handed to batch_get_headers
MaxScanMessages == 52    \* largest max_messages of a Gmail scan
MaxUids == 3             \* UIDs found by the IMAP search
MaxImapBatch == 2        \* largest batch_size of fetch_all_headers
MaxDropped == 1          \* messages one batch may lose

----------------------------------------------------------------------------
(* Strings *)

\* str::to_lowercase on one token
ToLowerToken(t) ==
    CASE t = "One-Click" -> "one-click"
      [] t = "ONE-CLICK" -> "one-click"
      [] t = "List-Unsubscribe=" -> "list-unsubscribe="
      [] t = "Manual" -> "manual"
      [] t = "Newsletter" -> "newsletter"
      [] t = "PROMO" -> "promo"
      [] t = "News@" -> "news@"
      [] t = "Jane" -> "jane"
      [] OTHER -> t

to_lowercase(s) == [i \in DOMAIN s |-> ToLowerToken(s[i])]

\* str::contains for a one-token pattern
contains(s, p) == \E i \in DOMAIN s : s[i] = p

\* index of the first occurrence of token t in s at or after position i, 0 if none
RECURSIVE FindFrom(_, _, _)
FindFrom(s, t, i) ==
    IF i > Len(s) THEN 0
    ELSE IF s[i] = t THEN i
    ELSE FindFrom(s, t, i + 1)

\* str::split(sep): the pieces of s between occurrences of sep
RECURSIVE split(_, _)
split(s, sep) ==
    LET k == FindFrom(s, sep, 1) IN
    IF k = 0 THEN <<s>>
    ELSE <<SubSeq(s, 1, k - 1)>> \o split(SubSeq(s, k + 1, Len(s)), sep)

\* str::replace(t, ""): every occurrence of token t removed
replace_with_empty(s, t) == SelectSeq(s, LAMBDA x : x # t)

\* Iterator::find(|s| s.contains(t)): the first piece containing token t,
\* as an Option
RECURSIVE find_containing(_, _, _)
find_containing(ss, t, i) ==
    IF i > Len(ss) THEN None
    ELSE IF contains(ss[i], t) THEN Some(ss[i])
    ELSE find_containing(ss, t, i + 1)

----------------------------------------------------------------------------
(* parse_list_unsubscribe: regex <(https?://[^>]+)> *)

Schemes == {"https://", "http://"}

\* Position of the closing '>' of a match of the regex starting at i, 0 if
\* the regex does not match at i.
MatchEnd(h, i) ==
    IF i + 1 <= Len(h) /\ h[i] = "<" /\ h[i + 1] \in Schemes
    THEN LET j == FindFrom(h, ">", i + 2) IN
         IF j >= i + 3 THEN j ELSE 0
    ELSE 0

\* captures_iter: leftmost non-overlapping matches, capture group 1
RECURSIVE CapturesFrom(_, _)
CapturesFrom(h, i) ==
    IF i > Len(h) THEN << >>
    ELSE LET j == MatchEnd(h, i) IN
         IF j # 0
         THEN <<SubSeq(h, i + 1, j - 1)>> \o CapturesFrom(h, j + 1)
         ELSE CapturesFrom(h, i + 1)

parse_list_unsubscribe(header) == CapturesFrom(header, 1)

detect_one_click(header) ==
    IF header = None THEN FALSE
    ELSE contains(to_lowercase(header[1]), "one-click")

----------------------------------------------------------------------------
(* f32 arithmetic, in units of 2^-26 *)

F32_0_5 == 33554432     \* 0.5f32
F32_0_3 == 20132660     \* 0.3f32 = 0x3E99999A
F32_0_2 == 13421773     \* 0.2f32 = 0x3E4CCCCD
F32_1_0 == 67108864     \* 1.0f32

\* spacing of f32 values around n (n < 2.0)
Ulp(n) ==
    IF n < 16777216 THEN 1
    ELSE IF n < 33554432 THEN 2
    ELSE IF n < 67108864 THEN 4
    ELSE 8

\* round to nearest representable f32, ties to even
RoundF32(n) ==
    LET u == Ulp(n)
        q == n \div u
        r == n % u
    IN  IF 2 * r < u THEN q * u
        ELSE IF 2 * r > u THEN (q + 1) * u
        ELSE IF q % 2 = 0 THEN q * u
        ELSE (q + 1) * u

F32Add(a, b) == RoundF32(a + b)

----------------------------------------------------------------------------
(* calculate_heuristic_score *)

newsletter_patterns ==
    <<"newsletter", "noreply", "no-reply", "notification", "promo",
      "marketing", "news@", "info@", "updates@">>

\* calculate_heuristic_score with the cap forgotten
calculate_heuristic_score_uncapped(e, has_unsub, count) ==
    LET s1 == IF has_unsub THEN F32Add(0, F32_0_5) ELSE 0
        email_lower == to_lowercase(e)
        s2 == IF \E k \in DOMAIN newsletter_patterns :
                     contains(email_lower, newsletter_patterns[k])
              THEN F32Add(s1, F32_0_3) ELSE s1
        s3 == IF count > 10 THEN F32Add(s2, F32_0_2) ELSE s2
    IN  IF count > 30 THEN F32Add(s3, F32_0_3) ELSE s3

\* calculate_heuristic_score where more than 30 messages earn no more than
\* more than 10 do
calculate_heuristic_score_no_stack(e, has_unsub, count) ==
    LET s1 == IF has_unsub THEN F32Add(0, F32_0_5) ELSE 0
        email_lower == to_lowercase(e)
        s2 == IF \E k \in DOMAIN newsletter_patterns :
                     contains(email_lower, newsletter_patterns[k])
              THEN F32Add(s1, F32_0_3) ELSE s1
        s3 == IF count > 10 THEN F32Add(s2, F32_0_2) ELSE s2
    IN  IF ~has_unsub /\ s3 > F32_0_5 THEN F32_0_5 ELSE s3

\* calculate_heuristic_score adding 0.3 for each of the first two patterns
\* found in the address
calculate_heuristic_score_per_keyword(e, has_unsub, count) ==
    LET s1 == IF has_unsub THEN F32Add(0, F32_0_5) ELSE 0
        email_lower == to_lowercase(e)
        hits == Cardinality({k \in DOMAIN newsletter_patterns :
                                contains(email_lower, newsletter_patterns[k])})
        s2 == IF hits = 0 THEN s1
              ELSE IF hits = 1 THEN F32Add(s1, F32_0_3)
              ELSE F32Add(F32Add(s1, F32_0_3), F32_0_3)
        s3 == IF count > 10 THEN F32Add(s2, F32_0_2) ELSE s2
        s4 == IF count > 30 THEN F32Add(s3, F32_0_3) ELSE s3
    IN  IF ~has_unsub /\ s4 > F32_0_5 THEN F32_0_5 ELSE s4

calculate_heuristic_score(e, has_unsub, count) ==
    LET s1 == IF has_unsub THEN F32Add(0, F32_0_5) ELSE 0
        email_lower == to_lowercase(e)
        s2 == IF \E k \in DOMAIN newsletter_patterns :
                     contains(email_lower, newsletter_patterns[k])
              THEN F32Add(s1, F32_0_3) ELSE s1
        s3 == IF count > 10 THEN F32Add(s2, F32_0_2) ELSE s2
        s4 == IF count > 30 THEN F32Add(s3, F32_0_3) ELSE s3
    IN  IF ~has_unsub /\ s4 > F32_0_5 THEN F32_0_5 ELSE s4

----------------------------------------------------------------------------
(* analyze_sender *)

OneClick(u) == [kind |-> "OneClick", url |-> u]
HttpLink(u) == [kind |-> "HttpLink", url |-> u]
Mailto(a) == [kind |-> "Mailto", address |-> a]
NoMethod == [kind |-> "None"]

\* the mailto branch of analyze_sender
mailto_address(header) ==
    LET seg == find_containing(split(header, "<"), "mailto:", 1)
        cut == IF seg = None THEN << >> ELSE split(seg[1], ">")[1]
    IN  replace_with_empty(cut, "mailto:")

\* the method selection of analyze_sender, given what detect_one_click says
unsubscribe_method_of(lu, has_one_click) ==
    LET unsubscribe_urls ==
            IF lu = None THEN << >> ELSE parse_list_unsubscribe(lu[1])
    IN  IF has_one_click
        THEN IF unsubscribe_urls # << >>
             THEN OneClick(unsubscribe_urls[1])
             ELSE NoMethod
        ELSE IF unsubscribe_urls # << >>
        THEN HttpLink(unsubscribe_urls[1])
        ELSE IF lu # None
        THEN IF contains(lu[1], "mailto:")
             THEN Mailto(mailto_address(lu[1]))
             ELSE NoMethod
        ELSE NoMethod

\* analyze_sender taking the last extracted URL instead of the first
unsubscribe_method_last_url(lu, lup) ==
    LET m == unsubscribe_method_of(lu, detect_one_click(lup))
        urls == IF lu = None THEN << >> ELSE parse_list_unsubscribe(lu[1])
    IN  IF m.kind \in {"OneClick", "HttpLink"}
        THEN [m EXCEPT !.url = urls[Len(urls)]]
        ELSE m

\* analyze_sender falling through to the mailto branch when the one-click
\* flag has no URL to go with
unsubscribe_method_fallthrough(lu, lup) ==
    LET m == unsubscribe_method_of(lu, detect_one_click(lup))
    IN  IF m.kind = "None" THEN unsubscribe_method_of(lu, FALSE) ELSE m

\* analyze_sender preferring a mailto entry over an HTTP link
unsubscribe_method_mailto_first(lu, lup) ==
    LET m == unsubscribe_method_of(lu, detect_one_click(lup))
    IN  IF m.kind = "HttpLink" /\ contains(lu[1], "mailto:")
        THEN Mailto(mailto_address(lu[1]))
        ELSE m

\* analyze_sender taking the mailto branch for every header without a URL,
\* mailto: token or not
unsubscribe_method_always_mailto(lu, lup) ==
    LET m == unsubscribe_method_of(lu, detect_one_click(lup))
    IN  IF m.kind = "None" /\ lu # None /\ ~detect_one_click(lup)
        THEN Mailto(mailto_address(lu[1]))
        ELSE m

unsubscribe_method(lu, lup) ==
    unsubscribe_method_of(lu, detect_one_click(lup))

\* analyze_sender handing the scorer the availability of a method instead
\* of the presence of the header
analyze_sender_by_method(e, count, lu, lup) ==
    [email |-> e,
     message_count |-> count,
     unsubscribe_method |-> unsubscribe_method(lu, lup),
     heuristic_score |->
        calculate_heuristic_score(e, unsubscribe_method(lu, lup).kind # "None",
                                  count)]

analyze_sender(e, count, lu, lup) ==
    [email |-> e,
     message_count |-> count,
     unsubscribe_method |-> unsubscribe_method(lu, lup),
     heuristic_score |-> calculate_heuristic_score(e, lu # None, count)]

----------------------------------------------------------------------------
(* plan_action, select_senders, execute_cleanup *)

is_one_click(m) == m.kind = "OneClick"
is_available(m) == m.kind # "None"

ActionTypes == {"UnsubscribeAndDelete", "SpamAndDelete", "DeleteOnly"}

\* plan_action taking any available method for a one-click one
plan_action_if_available(s) ==
    [sender |-> s,
     action_type |-> IF is_available(s.unsubscribe_method)
                     THEN "UnsubscribeAndDelete"
                     ELSE "SpamAndDelete"]

plan_action(s) ==
    [sender |-> s,
     action_type |-> IF is_one_click(s.unsubscribe_method)
                     THEN "UnsubscribeAndDelete"
                     ELSE "SpamAndDelete"]

F32_0_6 == 40265320     \* 0.6f32 = 0x3F19999A

\* the filter of select_senders with the threshold at 0.5
select_filter_half(s) ==
    s.heuristic_score >= F32_0_5 \/ is_available(s.unsubscribe_method)

\* the filter closure of select_senders
select_filter(s) ==
    s.heuristic_score >= F32_0_6 \/ is_available(s.unsubscribe_method)

\* the prompts execute_cleanup asks and the requests it sends
Prompt(p, a) == [op |-> "prompt", prompt |-> p, answer |-> a]
Post(u) == [op |-> "post", url |-> u]
MoveToSpam(ok) == [op |-> "move_to_spam", ok |-> ok]
DeleteMessages == [op |-> "delete_messages"]

\* what Confirm::prompt()? can give: Ok(true), Ok(false), Err
Answers == {"yes", "no", "error"}

\* network::http_client::unsubscribe_one_click: one POST to the URL
unsubscribe_one_click(u) == <<Post(u)>>

\* the delete prompt of execute_cleanup deleting whatever the answer
delete_step_unasked(delete) == <<Prompt("delete", delete), DeleteMessages>>

\* the delete prompt of execute_cleanup and what follows it
delete_step(delete) ==
    <<Prompt("delete", delete)>>
    \o (IF delete = "yes" THEN <<DeleteMessages>> ELSE << >>)

\* one iteration of the loop of execute_cleanup, given the user's answers
\* to the prompts and the outcome of move_to_spam; a failing prompt ends
\* execute_cleanup
cleanup_sender(s, unsub, block, spam_ok, delete) ==
    IF is_one_click(s.unsubscribe_method)
    THEN <<Prompt("unsubscribe", unsub)>>
         \o (IF unsub = "error" THEN << >>
             ELSE (IF unsub = "yes"
                   THEN unsubscribe_one_click(s.unsubscribe_method.url)
                   ELSE << >>) \o delete_step(delete))
    ELSE <<Prompt("block", block)>>
         \o (IF block = "error" THEN << >>
             ELSE IF block = "yes"
             THEN IF spam_ok THEN <<MoveToSpam(TRUE)>>
                  ELSE <<MoveToSpam(FALSE)>> \o delete_step(delete)
             ELSE delete_step(delete))

----------------------------------------------------------------------------
(* Inputs of the analysis functions *)

EmailTokens ==
    {"newsletter", "Newsletter", "News@", "info@", "jane", "Jane", "@site.com"}

HeaderTokens == {"<", ">", "https://", "http://", "mailto:", "a", "b"}

\* well-formed List-Unsubscribe entries
HeaderEntries ==
    {<<"<", "https://", "a", ">">>, <<"<", "http://", "b", ">">>,
     <<"<", "mailto:", "b", ">">>}

HeaderFragments == {<<t>> : t \in HeaderTokens} \cup HeaderEntries

PostTokens == {"List-Unsubscribe=", "One-Click", "one-click", "Manual"}

RECURSIVE SeqsOfLen(_, _)
SeqsOfLen(S, n) ==
    IF n = 0 THEN {<< >>}
    ELSE {<<x>> \o s : x \in S, s \in SeqsOfLen(S, n - 1)}

SeqsUpTo(S, n) == UNION {SeqsOfLen(S, k) : k \in 0..n}

RECURSIVE Concats(_, _)
Concats(F, n) ==
    IF n = 0 THEN {<< >>}
    ELSE {f \o s : f \in F, s \in Concats(F, n - 1)}

Emails == SeqsUpTo(EmailTokens, MaxEmailLen)
Headers == UNION {Concats(HeaderFragments, k) : k \in 0..MaxParts}
PostHeaders == SeqsUpTo(PostTokens, MaxPostLen)

CleanupHeaders == UNION {Concats(HeaderFragments, k) : k \in 0..MaxCleanupParts}

AnalyzeEmails == {<<"newsletter", "@site.com">>, <<"Jane", "@site.com">>}
AnalyzeCounts == {1, MaxMessageCount}

Options(S) == {None} \cup {Some(x) : x \in S}

----------------------------------------------------------------------------
(* Idle values of the groups of variables *)

AnalysisIdle ==
    /\ apc = "idle"
    /\ email = << >>
    /\ has_unsubscribe = FALSE
    /\ message_count = 0
    /\ list_unsubscribe = None
    /\ list_unsubscribe_post = None
    /\ score = 0
    /\ sender = None
    /\ action = None
    /\ offered = None
    /\ issued = << >>

BatchIdle ==
    /\ call = "idle"
    /\ message_ids = << >>
    /\ tasks = << >>
    /\ permits = 0
    /\ result = None
    /\ fault = None

ScanIdle ==
    /\ scan_pc = "idle"
    /\ path = "none"
    /\ max_messages = 0
    /\ batch_size = 0
    /\ all_message_ids = 0
    /\ next_chunk = 0
    /\ all_headers = << >>
    /\ scan_error = None

\* an empty HashMap
EmptyMap == [k \in {} |-> << >>]

GroupIdle ==
    /\ gpc = "idle"
    /\ group_input = << >>
    /\ parts = << >>
    /\ grouped = EmptyMap
    /\ senders = EmptyMap
    /\ plans = EmptyMap

UtilIdle ==
    /\ upc = "idle"
    /\ from_header = << >>
    /\ normalized = << >>
    /\ uids = << >>
    /\ overflow_checks = FALSE
    /\ uid_set = None

ImapIdle ==
    /\ ipc = "idle"
    /\ imap_fn = "none"
    /\ imap_uids = << >>
    /\ imap_uid_set = << >>
    /\ commands = << >>
    /\ imap_result = None

FetchIdle ==
    /\ fpc = "idle"
    /\ fetch_uids = << >>
    /\ responses = << >>
    /\ cursor = 0
    /\ headers = << >>
    /\ warnings = << >>
    /\ fetch_error = None
    /\ fetch_result = None

SelectIdle ==
    /\ spc = "idle"
    /\ sel_senders = << >>
    /\ sorted = << >>
    /\ options = << >>
    /\ selected_strs = << >>
    /\ chosen = << >>
    /\ selected = None

WorkflowIdle ==
    /\ wpc = "idle"
    /\ w_sender = << >>
    /\ plan = << >>
    /\ cleanup_result = << >>
    /\ post_outcome = "none"
    /\ filter_outcome = "none"

PipeIdle ==
    /\ ppc = "idle"
    /\ listed = 0
    /\ handed = << >>
    /\ progress = << >>
    /\ collected = 0

----------------------------------------------------------------------------
(* Calls of the analysis functions *)

InitScore ==
    /\ apc = "score"
    /\ email \in Emails
    /\ has_unsubscribe \in BOOLEAN
    /\ message_count \in 0..MaxMessageCount
    /\ list_unsubscribe = None
    /\ list_unsubscribe_post = None
    /\ score = 0
    /\ sender = None
    /\ action = None
    /\ offered = None
    /\ issued = << >>
    /\ BatchIdle
    /\ ScanIdle
    /\ GroupIdle
    /\ UtilIdle
    /\ ImapIdle
    /\ FetchIdle
    /\ SelectIdle
    /\ WorkflowIdle
    /\ PipeIdle

InitAnalyze ==
    /\ apc = "analyze"
    /\ email \in AnalyzeEmails
    /\ has_unsubscribe = FALSE
    /\ message_count \in AnalyzeCounts
    /\ list_unsubscribe \in Options(Headers)
    /\ list_unsubscribe_post \in Options(PostHeaders)
    /\ score = 0
    /\ sender = None
    /\ action = None
    /\ offered = None
    /\ issued = << >>
    /\ BatchIdle
    /\ ScanIdle
    /\ GroupIdle
    /\ UtilIdle
    /\ ImapIdle
    /\ FetchIdle
    /\ SelectIdle
    /\ WorkflowIdle
    /\ PipeIdle

CalculateHeuristicScore ==
    /\ apc = "score"
    /\ score' = calculate_heuristic_score(email, has_unsubscribe, message_count)
    /\ apc' = "scored"
    /\ UNCHANGED <<email, has_unsubscribe, message_count, list_unsubscribe,
                   list_unsubscribe_post, sender, action, offered, issued>>
    /\ UNCHANGED <<batchVars, scanVars, groupVars, utilVars, imapVars,
                   fetchVars, selectVars, workflowVars, pipeVars>>

AnalyzeSender ==
    /\ apc = "analyze"
    /\ sender' = Some(analyze_sender(email, message_count, list_unsubscribe,
                                     list_unsubscribe_post))
    /\ apc' = "analyzed"
    /\ UNCHANGED <<email, has_unsubscribe, message_count, list_unsubscribe,
                   list_unsubscribe_post, score, action, offered, issued>>
    /\ UNCHANGED <<batchVars, scanVars, groupVars, utilVars, imapVars,
                   fetchVars, selectVars, workflowVars, pipeVars>>

\* a sender to be analyzed, then planned or offered for cleanup
InitCleanup ==
    /\ apc = "analyze"
    /\ email \in AnalyzeEmails
    /\ has_unsubscribe = FALSE
    /\ message_count \in AnalyzeCounts
    /\ list_unsubscribe \in Options(CleanupHeaders)
    /\ list_unsubscribe_post \in Options(PostHeaders)
    /\ score = 0
    /\ sender = None
    /\ action = None
    /\ offered = None
    /\ issued = << >>
    /\ BatchIdle
    /\ ScanIdle
    /\ GroupIdle
    /\ UtilIdle
    /\ ImapIdle
    /\ FetchIdle
    /\ SelectIdle
    /\ WorkflowIdle
    /\ PipeIdle

PlanAction ==
    /\ apc = "analyzed"
    /\ action' = Some(plan_action(sender[1]))
    /\ apc' = "planned"
    /\ UNCHANGED <<email, has_unsubscribe, message_count, list_unsubscribe,
                   list_unsubscribe_post, score, sender, offered, issued>>
    /\ UNCHANGED <<batchVars, scanVars, groupVars, utilVars, imapVars,
                   fetchVars, selectVars, workflowVars, pipeVars>>

\* select_senders on the one analyzed sender: the filter, then the user's
\* choice in the MultiSelect prompt
SelectSenders ==
    /\ apc = "analyzed"
    /\ offered' = Some(select_filter(sender[1]))
    /\ IF select_filter(sender[1])
       THEN \E picked \in BOOLEAN :
               apc' = IF picked THEN "selected" ELSE "none_selected"
       ELSE apc' = "none_offered"
    /\ UNCHANGED <<email, has_unsubscribe, message_count, list_unsubscribe,
                   list_unsubscribe_post, score, sender, action, issued>>
    /\ UNCHANGED <<batchVars, scanVars, groupVars, utilVars, imapVars,
                   fetchVars, selectVars, workflowVars, pipeVars>>

ExecuteCleanup ==
    /\ apc = "selected"
    /\ \E unsub \in Answers, block \in Answers, spam_ok \in BOOLEAN,
          delete \in Answers :
          issued' = cleanup_sender(sender[1], unsub, block, spam_ok, delete)
    /\ apc' = "cleaned"
    /\ UNCHANGED <<email, has_unsubscribe, message_count, list_unsubscribe,
                   list_unsubscribe_post, score, sender, action, offered>>
    /\ UNCHANGED <<batchVars, scanVars, groupVars, utilVars, imapVars,
                   fetchVars, selectVars, workflowVars, pipeVars>>

----------------------------------------------------------------------------
(* GmailClient::batch_get_headers                                          *)
(*                                                                         *)
(* tasks is the bag of the spawned tasks' local states: tasks spawned for  *)
(* the same message id in the same local state are interchangeable.        *)

SemaphorePermits == 10      \* Semaphore::new(10)
max_retries == 3            \* let max_retries = 3
InitialDelayMs == 100       \* let mut delay_ms = 100

\* texts of the errors a fetch attempt can return
ErrorTexts == {<<"429">>, <<"503">>, <<"timeout">>, <<"500">>, <<"404">>}

\* texts of the errors a fetch attempt can return during this call
FailureTexts == IF fault = None THEN ErrorTexts ELSE {fault[1]}

\* a spawned task that has not yet passed semaphore.acquire()
Spawned(id) == [id |-> id, pc |-> "acquire", retries |-> 0, delay_ms |-> 0]
\* a task that returned Some(headers) / None; its locals are gone
ReturnedSome(id) == [id |-> id, pc |-> "some", retries |-> 0, delay_ms |-> 0]
ReturnedNone(id) == [id |-> id, pc |-> "none", retries |-> 0, delay_ms |-> 0]

One(t) == SetToBag({t})
Move(b, from, to) == (b (-) One(from)) (+) One(to)

\* should_retry with an off-by-one in the retry budget
should_retry_once_more(retries, e) ==
    /\ retries <= max_retries
    /\ (contains(e, "429") \/ contains(e, "503") \/ contains(e, "timeout"))

should_retry(retries, e) ==
    /\ retries < max_retries
    /\ (contains(e, "429") \/ contains(e, "503") \/ contains(e, "timeout"))

\* a _permit that is never given back to the semaphore
drop_permit_leaked(p) == p

\* the drop of _permit when the task's closure returns
drop_permit(p) == p + 1

\* semaphore.acquire() handing out a permit that is not there
acquire_ready_unbounded(p) == TRUE

\* semaphore.acquire() completes only while a permit is available
acquire_ready(p) == p > 0

\* the spawn loop: one task per element of message_ids
RECURSIVE SpawnAll(_, _)
SpawnAll(ids, i) ==
    IF i > Len(ids) THEN EmptyBag
    ELSE One(Spawned(ids[i])) (+) SpawnAll(ids, i + 1)

\* results.into_iter().filter_map(|r| r.ok().flatten()).collect() giving up
\* at the first task that returned None
RECURSIVE collect_until_none(_, _, _)
collect_until_none(ids, b, i) ==
    IF i > Len(ids) THEN << >>
    ELSE IF BagIn(ReturnedSome(ids[i]), b)
    THEN <<ids[i]>> \o collect_until_none(ids, b (-) One(ReturnedSome(ids[i])), i + 1)
    ELSE << >>

\* results.into_iter().filter_map(|r| r.ok().flatten()).collect(): the ids,
\* in task order, of the tasks that returned Some.  (Equal ids are adjacent
\* in every input of the model, so which of them succeeded does not show.)
RECURSIVE collect_headers(_, _, _)
collect_headers(ids, b, i) ==
    IF i > Len(ids) THEN << >>
    ELSE IF BagIn(ReturnedSome(ids[i]), b)
    THEN <<ids[i]>> \o collect_headers(ids, b (-) One(ReturnedSome(ids[i])), i + 1)
    ELSE collect_headers(ids, b, i + 1)

TasksAt(pcs) == {t \in BagToSet(tasks) : t.pc \in pcs}

\* the call: semaphore created, every task spawned
BatchGetHeaders ==
    /\ call = "idle"
    /\ call' = "running"
    /\ permits' = SemaphorePermits
    /\ tasks' = SpawnAll(message_ids, 1)
    /\ UNCHANGED <<message_ids, result, fault>>
    /\ UNCHANGED <<analysisVars, scanVars, groupVars, utilVars, imapVars,
                   fetchVars, selectVars, workflowVars, pipeVars>>

\* let _permit = semaphore.acquire().await
Acquire ==
    /\ call = "running"
    /\ \E t \in TasksAt({"acquire"}) :
          /\ acquire_ready(permits)
          /\ permits' = permits - 1
          /\ tasks' = Move(tasks, t, [t EXCEPT !.pc = "fetch", !.retries = 0,
                                               !.delay_ms = InitialDelayMs])
    /\ UNCHANGED <<call, message_ids, result, fault>>
    /\ UNCHANGED <<analysisVars, scanVars, groupVars, utilVars, imapVars,
                   fetchVars, selectVars, workflowVars, pipeVars>>

\* messages_get(...).doit() returns Ok: the task returns Some, _permit drops
FetchOk ==
    /\ call = "running"
    /\ \E t \in TasksAt({"fetch"}) :
          /\ tasks' = Move(tasks, t, ReturnedSome(t.id))
          /\ permits' = drop_permit(permits)
    /\ UNCHANGED <<call, message_ids, result, fault>>
    /\ UNCHANGED <<analysisVars, scanVars, groupVars, utilVars, imapVars,
                   fetchVars, selectVars, workflowVars, pipeVars>>

\* messages_get(...).doit() returns Err(e): back off or give up
FetchErr ==
    /\ call = "running"
    /\ \E t \in TasksAt({"fetch"}), e \in FailureTexts :
          IF should_retry(t.retries, e)
          THEN /\ tasks' = Move(tasks, t, [t EXCEPT !.pc = "sleep"])
               /\ permits' = permits
          ELSE /\ tasks' = Move(tasks, t, ReturnedNone(t.id))
               /\ permits' = drop_permit(permits)
    /\ UNCHANGED <<call, message_ids, result, fault>>
    /\ UNCHANGED <<analysisVars, scanVars, groupVars, utilVars, imapVars,
                   fetchVars, selectVars, workflowVars, pipeVars>>

\* the sleep of delay_ms is over: delay_ms *= 2; retries += 1; next attempt
Wake ==
    /\ call = "running"
    /\ \E t \in TasksAt({"sleep"}) :
          tasks' = Move(tasks, t, [t EXCEPT !.pc = "fetch",
                                            !.delay_ms = 2 * t.delay_ms,
                                            !.retries = t.retries + 1])
    /\ UNCHANGED <<call, message_ids, permits, result, fault>>
    /\ UNCHANGED <<analysisVars, scanVars, groupVars, utilVars, imapVars,
                   fetchVars, selectVars, workflowVars, pipeVars>>

\* join_all(tasks).await, then the successful results are collected
JoinAll ==
    /\ call = "running"
    /\ TasksAt({"acquire", "fetch", "sleep"}) = {}
    /\ result' = Some([ok |-> TRUE,
                       headers |-> collect_headers(message_ids, tasks, 1)])
    /\ call' = "returned"
    /\ UNCHANGED <<message_ids, tasks, permits, fault>>
    /\ UNCHANGED <<analysisVars, scanVars, groupVars, utilVars, imapVars,
                   fetchVars, selectVars, workflowVars, pipeVars>>

InitBatchWith(inputs) ==
    /\ AnalysisIdle
    /\ ScanIdle
    /\ GroupIdle
    /\ UtilIdle
    /\ ImapIdle
    /\ FetchIdle
    /\ SelectIdle
    /\ WorkflowIdle
    /\ PipeIdle
    /\ call = "idle"
    /\ message_ids \in inputs
    /\ tasks = EmptyBag
    /\ permits = 0
    /\ result = None
    /\ fault = None

\* slices of distinct ids 1..n
DistinctIds == {[i \in 1..n |-> i] : n \in 0..MaxBatch}
\* slices that hold more ids than there are permits
GateIds == {[i \in 1..n |-> 1] : n \in (SemaphorePermits + 1)..MaxGateBatch}

\* a call during which the API answers every failing attempt with one error
InitRetry ==
    /\ AnalysisIdle
    /\ ScanIdle
    /\ GroupIdle
    /\ UtilIdle
    /\ ImapIdle
    /\ FetchIdle
    /\ SelectIdle
    /\ WorkflowIdle
    /\ PipeIdle
    /\ call = "idle"
    /\ message_ids \in DistinctIds
    /\ tasks = EmptyBag
    /\ permits = 0
    /\ result = None
    /\ fault \in {Some(e) : e \in ErrorTexts}

InitBatch == InitBatchWith(DistinctIds)
InitGate == InitBatchWith(GateIds)

NextBatch == BatchGetHeaders \/ Acquire \/ FetchOk \/ FetchErr \/ Wake \/ JoinAll
SpecBatch == InitBatch /\ [][NextBatch]_vars
SpecGate == InitGate /\ [][NextBatch]_vars
SpecRetry == InitRetry /\ [][NextBatch]_vars

\* calls of every size, run by a scheduler that lets every task that can
\* take a step take it: a waiter gets a free permit, every fetch attempt
\* returns, every sleep ends, and join_all returns once all tasks have
InitAnySize == InitBatchWith(DistinctIds \cup GateIds)
FairBatch ==
    /\ WF_vars(BatchGetHeaders)
    /\ WF_vars(Acquire)
    /\ WF_vars(FetchOk \/ FetchErr)
    /\ WF_vars(Wake)
    /\ WF_vars(JoinAll)
SpecBatchFair == InitAnySize /\ [][NextBatch]_vars /\ FairBatch

----------------------------------------------------------------------------
(* scan_inbox over the Gmail API (src/cli/scan.rs) and fetch_all_headers   *)
(* over IMAP (src/infrastructure/imap/fetch.rs).  The listed ids are       *)
(* 1..all_message_ids; a header is named by the id of its message.         *)

GmailBatchSize == 50        \* let batch_size = 50

Min(a, b) == IF a < b THEN a ELSE b

\* sizes of the pages list_message_ids may return
PageSizes == {0, 1, GmailBatchSize}

\* the chunk of all_message_ids.chunks(batch_size) that starts at id `from`
Chunk(from, size, n) == [i \in 1..(Min(from + size - 1, n) - from + 1) |-> from + i - 1]

Range(q) == {q[i] : i \in DOMAIN q}

\* the sequences obtained from q by leaving out at most MaxDropped elements
RECURSIVE SubsetsUpTo(_, _)
SubsetsUpTo(S, k) ==
    IF k = 0 THEN {{}}
    ELSE LET P == SubsetsUpTo(S, k - 1) IN P \cup {E \cup {x} : E \in P, x \in S}

Partial(q) ==
    {SelectSeq(q, LAMBDA x : x \notin D) : D \in SubsetsUpTo(Range(q), MaxDropped)}

\* what batch_get_headers can return for a chunk: always Ok, with the
\* headers of the messages whose task returned Some
batch_get_headers_outcomes(chunk) ==
    {[ok |-> TRUE, headers |-> h] : h \in Partial(chunk)}

\* what fetch_headers_batch can return for a chunk: Err when uid_fetch or
\* the response stream fails, else Ok with the headers that parsed
fetch_headers_batch_outcomes(chunk) ==
    {[ok |-> TRUE, headers |-> h] : h \in Partial(chunk)}
        \cup {[ok |-> FALSE, headers |-> << >>]}

\* list_message_ids(...).await? fails: scan_inbox returns the error
GmailListFails ==
    /\ scan_pc = "list" /\ path = "gmail"
    /\ scan_pc' = "failed"
    /\ scan_error' = Some("list")
    /\ all_headers' = << >>
    /\ UNCHANGED <<path, max_messages, batch_size, all_message_ids, next_chunk>>
    /\ UNCHANGED <<analysisVars, batchVars, groupVars, utilVars, imapVars,
                   fetchVars, selectVars, workflowVars, pipeVars>>

\* one page of ids; the loop ends when enough ids are listed or no page is
\* left, and the list is truncated to max_messages
GmailListPage ==
    /\ scan_pc = "list" /\ path = "gmail"
    /\ \E k \in PageSizes, has_next \in BOOLEAN :
          LET len == all_message_ids + k IN
          IF len >= max_messages \/ ~has_next
          THEN /\ all_message_ids' = Min(len, max_messages)
               /\ scan_pc' = "fetch"
               /\ next_chunk' = 1
          ELSE /\ all_message_ids' = len
               /\ UNCHANGED <<scan_pc, next_chunk>>
    /\ UNCHANGED <<path, max_messages, batch_size, all_headers, scan_error>>
    /\ UNCHANGED <<analysisVars, batchVars, groupVars, utilVars, imapVars,
                   fetchVars, selectVars, workflowVars, pipeVars>>

\* one iteration of `for chunk in all_message_ids.chunks(batch_size)`
GmailFetchChunk ==
    /\ scan_pc = "fetch" /\ path = "gmail"
    /\ next_chunk <= all_message_ids
    /\ \E r \in batch_get_headers_outcomes(
                    Chunk(next_chunk, batch_size, all_message_ids)) :
          IF r.ok
          THEN /\ all_headers' = all_headers \o r.headers
               /\ next_chunk' = next_chunk + batch_size
               /\ UNCHANGED <<scan_pc, scan_error>>
          ELSE /\ scan_pc' = "failed"
               /\ scan_error' = Some("fetch")
               /\ all_headers' = << >>
               /\ UNCHANGED next_chunk
    /\ UNCHANGED <<path, max_messages, batch_size, all_message_ids>>
    /\ UNCHANGED <<analysisVars, batchVars, groupVars, utilVars, imapVars,
                   fetchVars, selectVars, workflowVars, pipeVars>>

\* search_all_uids(session).await? fails
ImapSearchFails ==
    /\ scan_pc = "list" /\ path = "imap"
    /\ scan_pc' = "failed"
    /\ scan_error' = Some("search")
    /\ all_headers' = << >>
    /\ UNCHANGED <<path, max_messages, batch_size, all_message_ids, next_chunk>>
    /\ UNCHANGED <<analysisVars, batchVars, groupVars, utilVars, imapVars,
                   fetchVars, selectVars, workflowVars, pipeVars>>

\* search_all_uids returns the UIDs of INBOX
ImapSearch ==
    /\ scan_pc = "list" /\ path = "imap"
    /\ \E n \in 0..MaxUids : all_message_ids' = n
    /\ scan_pc' = "fetch"
    /\ next_chunk' = 1
    /\ UNCHANGED <<path, max_messages, batch_size, all_headers, scan_error>>
    /\ UNCHANGED <<analysisVars, batchVars, groupVars, utilVars, imapVars,
                   fetchVars, selectVars, workflowVars, pipeVars>>

\* one iteration of `for chunk in uids.chunks(batch_size)`:
\* fetch_headers_batch(session, chunk).await?
ImapFetchBatch ==
    /\ scan_pc = "fetch" /\ path = "imap"
    /\ next_chunk <= all_message_ids
    /\ \E r \in fetch_headers_batch_outcomes(
                    Chunk(next_chunk, batch_size, all_message_ids)) :
          IF r.ok
          THEN /\ all_headers' = all_headers \o r.headers
               /\ next_chunk' = next_chunk + batch_size
               /\ UNCHANGED <<scan_pc, scan_error>>
          ELSE /\ scan_pc' = "failed"
               /\ scan_error' = Some("fetch")
               /\ all_headers' = << >>
               /\ UNCHANGED next_chunk
    /\ UNCHANGED <<path, max_messages, batch_size, all_message_ids>>
    /\ UNCHANGED <<analysisVars, batchVars, groupVars, utilVars, imapVars,
                   fetchVars, selectVars, workflowVars, pipeVars>>

\* every chunk is fetched: the collected headers are returned
ScanDone ==
    /\ scan_pc = "fetch"
    /\ next_chunk > all_message_ids
    /\ scan_pc' = "done"
    /\ UNCHANGED <<path, max_messages, batch_size, all_message_ids,
                   next_chunk, all_headers, scan_error>>
    /\ UNCHANGED <<analysisVars, batchVars, groupVars, utilVars, imapVars,
                   fetchVars, selectVars, workflowVars, pipeVars>>

InitScan ==
    /\ AnalysisIdle
    /\ BatchIdle
    /\ GroupIdle
    /\ UtilIdle
    /\ ImapIdle
    /\ FetchIdle
    /\ SelectIdle
    /\ WorkflowIdle
    /\ PipeIdle
    /\ scan_pc = "list"
    /\ \/ /\ path = "gmail"
          /\ max_messages \in {1, MaxScanMessages}
          /\ batch_size = GmailBatchSize
       \/ /\ path = "imap"
          /\ max_messages = 0
          /\ batch_size \in 1..MaxImapBatch
    /\ all_message_ids = 0
    /\ next_chunk = 0
    /\ all_headers = << >>
    /\ scan_error = None

NextScan ==
    \/ GmailListFails \/ GmailListPage \/ GmailFetchChunk
    \/ ImapSearchFails \/ ImapSearch \/ ImapFetchBatch
    \/ ScanDone
SpecScan == InitScan /\ [][NextScan]_vars

----------------------------------------------------------------------------
(* group_by_sender (src/infrastructure/imap/fetch.rs) and the analysis of  *)
(* its groups in scan_inbox (src/cli/interactive.rs).  A HashMap is a       *)
(* function from its keys; a From string is a sequence of tokens of which   *)
(* "<", ">" and " " stand for those characters.                             *)

\* a MessageHeader (subject left out)
MessageHeader(uid, from, lu, lup) ==
    [uid |-> uid, from |-> from, list_unsubscribe |-> lu,
     list_unsubscribe_post |-> lup]

\* str::trim
RECURSIVE trim_start(_)
trim_start(s) ==
    IF s # << >> /\ Head(s) = " " THEN trim_start(Tail(s)) ELSE s
RECURSIVE trim_end(_)
trim_end(s) ==
    IF s # << >> /\ s[Len(s)] = " "
    THEN trim_end(SubSeq(s, 1, Len(s) - 1)) ELSE s
trim(s) == trim_end(trim_start(s))

Returned(x) == [panic |-> FALSE, value |-> x]
Panicked == [panic |-> TRUE]

\* extract_email: the slice from[start + 1..end] panics when end < start + 1
extract_email(from) ==
    LET start == FindFrom(from, "<", 1)
        end == FindFrom(from, ">", 1)
    IN  IF start # 0 /\ end # 0
        THEN IF end < start THEN Panicked
             ELSE Returned(SubSeq(from, start + 1, end - 1))
        ELSE Returned(trim(from))

\* the fold closure applied to the headers of one piece, left to right:
\* acc.entry(email).or_insert_with(Vec::new).push(header) leaves under every
\* email of the piece its headers, in the order of the piece
fold_chunk(chunk) ==
    [k \in {extract_email(chunk[i].from).value : i \in DOMAIN chunk} |->
        SelectSeq(chunk, LAMBDA h : extract_email(h.from).value = k)]

\* the reduce closure replacing the messages of acc by those of map
reduce_op_overwrite(acc, map) ==
    [k \in DOMAIN acc \cup DOMAIN map |->
        IF k \in DOMAIN map THEN map[k] ELSE acc[k]]

\* the reduce closure: the messages of map appended to those of acc, per key
reduce_op(acc, map) ==
    [k \in DOMAIN acc \cup DOMAIN map |->
        (IF k \in DOMAIN acc THEN acc[k] ELSE << >>)
        \o (IF k \in DOMAIN map THEN map[k] ELSE << >>)]

\* the sets of at most k positions of 1..(n - 1) after which the input is cut
RECURSIVE CutSets(_, _)
CutSets(n, k) ==
    IF k = 0 \/ n <= 1 THEN {{}}
    ELSE LET smaller == CutSets(n, k - 1)
         IN  smaller \cup {c \cup {j} : c \in smaller, j \in 1..(n - 1)}

\* the contiguous pieces of h for the cut set c, from position start on
RECURSIVE ChunksFrom(_, _, _)
ChunksFrom(h, c, start) ==
    IF start > Len(h) THEN << >>
    ELSE LET later == {j \in c : j >= start}
             end == IF later = {} THEN Len(h)
                    ELSE CHOOSE j \in later : \A k \in later : j <= k
         IN  <<SubSeq(h, start, end)>> \o ChunksFrom(h, c, end + 1)

\* the closure of scan_inbox that turns one group into a SenderInfo: the
\* unsubscribe headers are those of the first message of the group
sender_of_group(e, messages) ==
    [info |-> analyze_sender(e, Len(messages),
                             messages[1].list_unsubscribe,
                             messages[1].list_unsubscribe_post),
     message_uids |-> [i \in DOMAIN messages |-> messages[i].uid]]

\* into_par_iter().fold(...): the input is cut into pieces and each piece
\* is folded into a map of its own; a panic of extract_email ends the call
GroupBySender ==
    /\ gpc = "group"
    /\ IF \E i \in DOMAIN group_input :
              extract_email(group_input[i].from).panic
       THEN /\ gpc' = "panicked"
            /\ parts' = << >>
       ELSE /\ gpc' = "reduce"
            /\ \E c \in CutSets(Len(group_input), MaxChunks - 1) :
                  LET chunks == ChunksFrom(group_input, c, 1)
                  IN  parts' = [i \in DOMAIN chunks |->
                                   fold_chunk(chunks[i])]
    /\ UNCHANGED <<group_input, grouped, senders, plans>>
    /\ UNCHANGED <<analysisVars, batchVars, scanVars, utilVars, imapVars,
                   fetchVars, selectVars, workflowVars, pipeVars>>

\* .reduce(...): two neighbouring partial maps are merged into one
Reduce ==
    /\ gpc = "reduce"
    /\ Len(parts) > 1
    /\ \E i \in 1..(Len(parts) - 1) :
          parts' = SubSeq(parts, 1, i - 1)
                   \o <<reduce_op(parts[i], parts[i + 1])>>
                   \o SubSeq(parts, i + 2, Len(parts))
    /\ UNCHANGED <<gpc, group_input, grouped, senders, plans>>
    /\ UNCHANGED <<analysisVars, batchVars, scanVars, utilVars, imapVars,
                   fetchVars, selectVars, workflowVars, pipeVars>>

\* group_by_sender returns the last map (the identity for an empty input)
GroupReturn ==
    /\ gpc = "reduce"
    /\ Len(parts) <= 1
    /\ grouped' = IF parts = << >> THEN EmptyMap ELSE parts[1]
    /\ gpc' = "grouped"
    /\ UNCHANGED <<group_input, parts, senders, plans>>
    /\ UNCHANGED <<analysisVars, batchVars, scanVars, utilVars, imapVars,
                   fetchVars, selectVars, workflowVars, pipeVars>>

\* scan_inbox: grouped.into_iter().map(...).collect()
AnalyzeGroups ==
    /\ gpc = "grouped"
    /\ senders' = [e \in DOMAIN grouped |-> sender_of_group(e, grouped[e])]
    /\ gpc' = "analyzed"
    /\ UNCHANGED <<group_input, parts, grouped, plans>>
    /\ UNCHANGED <<analysisVars, batchVars, scanVars, utilVars, imapVars,
                   fetchVars, selectVars, workflowVars, pipeVars>>

\* plan_actions over the analyzed senders
PlanActions ==
    /\ gpc = "analyzed"
    /\ plans' = [e \in DOMAIN senders |-> plan_action(senders[e].info)]
    /\ gpc' = "planned"
    /\ UNCHANGED <<group_input, parts, grouped, senders>>
    /\ UNCHANGED <<analysisVars, batchVars, scanVars, utilVars, imapVars,
                   fetchVars, selectVars, workflowVars, pipeVars>>

\* From strings: bare, with display name, padded, unclosed, reversed
Froms ==
    {<<"jane", "@family.com">>,
     <<"Jane Doe", " ", "<", "jane", "@family.com", ">">>,
     <<" ", "newsletter", "@site.com", " ">>,
     <<"<", "jane">>,
     <<">", "jane", "<">>}

\* the unsubscribe headers a message may carry
UnsubscribeHeaders ==
    {<<None, None>>,
     <<Some(<<"<", "https://", "a", ">">>), None>>,
     <<Some(<<"<", "https://", "a", ">">>),
       Some(<<"List-Unsubscribe=", "One-Click">>)>>}

\* header sequences of length n; the uid of a message is its position
HeaderSeqs(n) ==
    {[i \in 1..n |-> MessageHeader(i, f[i][1], f[i][2][1], f[i][2][2])] :
        f \in [1..n -> Froms \X UnsubscribeHeaders]}

InitGroupWith(inputs) ==
    /\ AnalysisIdle
    /\ BatchIdle
    /\ ScanIdle
    /\ UtilIdle
    /\ ImapIdle
    /\ FetchIdle
    /\ SelectIdle
    /\ WorkflowIdle
    /\ PipeIdle
    /\ gpc = "group"
    /\ group_input \in inputs
    /\ parts = << >>
    /\ grouped = EmptyMap
    /\ senders = EmptyMap
    /\ plans = EmptyMap

InitGroup == InitGroupWith(UNION {HeaderSeqs(n) : n \in 0..MaxHeaders})

\* n headers of one sender with the same unsubscribe headers
SameHeaders(n, from, lu, lup) == [i \in 1..n |-> MessageHeader(i, from, lu, lup)]

\* sender addresses of the end-to-end runs
SenderFroms ==
    {<<"newsletter", "@site.com">>, <<"jane", "@family.com">>,
     <<"Jane Doe", " ", "<", "jane", "@family.com", ">">>}

\* the two scenarios: 35 one-click newsletters, 50 personal messages
NewsletterScenario ==
    SameHeaders(35, <<"newsletter", "@site.com">>,
                Some(<<"<", "https://", "a", ">">>),
                Some(<<"List-Unsubscribe=", "One-Click">>))
PersonalScenario ==
    SameHeaders(50, <<"jane", "@family.com">>, None, None)

InitEndToEnd ==
    InitGroupWith({NewsletterScenario, PersonalScenario}
                  \cup {SameHeaders(n, f, u[1], u[2]) :
                           n \in 1..MaxHeaders, f \in SenderFroms,
                           u \in UnsubscribeHeaders})

NextGroup ==
    GroupBySender \/ Reduce \/ GroupReturn \/ AnalyzeGroups \/ PlanActions
SpecGroup == InitGroup /\ [][NextGroup]_vars
SpecEndToEnd == InitEndToEnd /\ [][NextGroup]_vars

----------------------------------------------------------------------------
(* extract_email called on its own *)

FromTokens == {"<", ">", " ", "jane", "Jane"}

InitExtract ==
    /\ AnalysisIdle
    /\ BatchIdle
    /\ ScanIdle
    /\ GroupIdle
    /\ ImapIdle
    /\ FetchIdle
    /\ SelectIdle
    /\ WorkflowIdle
    /\ PipeIdle
    /\ upc = "extract"
    /\ from_header \in SeqsUpTo(FromTokens, MaxFromLen)
    /\ normalized = None
    /\ uids = << >>
    /\ overflow_checks = FALSE
    /\ uid_set = None

ExtractEmail ==
    /\ upc = "extract"
    /\ normalized' = Some(extract_email(from_header))
    /\ upc' = "extracted"
    /\ UNCHANGED <<from_header, uids, overflow_checks, uid_set>>
    /\ UNCHANGED <<analysisVars, batchVars, scanVars, groupVars, imapVars,
                   fetchVars, selectVars, workflowVars, pipeVars>>

NextExtract == ExtractEmail
SpecExtract == InitExtract /\ [][NextExtract]_vars

----------------------------------------------------------------------------
(* format_uid_set called on its own.  A u32 is kept as its two 16-bit
   halves, so that values up to 4294967295 and the wrap of `+ 1` are exact. *)

U32(hi, lo) == [hi |-> hi, lo |-> lo]
U32Max == U32(65535, 65535)

\* w[0] + 1 on u32: with overflow checks the addition panics at u32::MAX,
\* without them it wraps to 0
add_one(x, checks) ==
    IF x.lo < 65535 THEN Returned(U32(x.hi, x.lo + 1))
    ELSE IF x.hi < 65535 THEN Returned(U32(x.hi + 1, 0))
    ELSE IF checks THEN Panicked
    ELSE Returned(U32(0, 0))

\* uids.windows(2).all(|w| w[1] == w[0] + 1) from window i on: `all` stops
\* at the first window that is not consecutive
RECURSIVE windows_all(_, _, _)
windows_all(list, i, checks) ==
    IF i >= Len(list) THEN Returned(TRUE)
    ELSE LET next == add_one(list[i], checks)
         IN  IF next.panic THEN Panicked
             ELSE IF list[i + 1] # next.value THEN Returned(FALSE)
             ELSE windows_all(list, i + 1, checks)

\* the tokens of the produced string
Num(u) == [tok |-> "num", value |-> u]
Colon == [tok |-> "colon"]
Comma == [tok |-> "comma"]

\* uids.iter().map(to_string).collect::<Vec<_>>().join(",")
RECURSIVE join_uids(_)
join_uids(list) ==
    IF Len(list) = 1 THEN <<Num(list[1])>>
    ELSE <<Num(list[1]), Comma>> \o join_uids(Tail(list))

format_uid_set(list, checks) ==
    IF list = << >> THEN Returned(<< >>)
    ELSE IF Len(list) = 1 THEN Returned(<<Num(list[1])>>)
    ELSE LET is_consecutive == windows_all(list, 1, checks)
         IN  IF is_consecutive.panic THEN Panicked
             ELSE IF is_consecutive.value
                  THEN Returned(<<Num(list[1]), Colon, Num(list[Len(list)])>>)
                  ELSE Returned(join_uids(list))

\* UIDs at both ends of the 32-bit range
UidValues ==
    {U32(0, 0), U32(0, 1), U32(0, 2), U32(0, 3), U32(0, 5),
     U32(65535, 65534), U32Max}

InitFormat ==
    /\ AnalysisIdle
    /\ BatchIdle
    /\ ScanIdle
    /\ GroupIdle
    /\ ImapIdle
    /\ FetchIdle
    /\ SelectIdle
    /\ WorkflowIdle
    /\ PipeIdle
    /\ upc = "format"
    /\ from_header = << >>
    /\ normalized = None
    /\ uids \in SeqsUpTo(UidValues, MaxUidListLen)
    /\ overflow_checks \in BOOLEAN
    /\ uid_set = None

FormatUidSet ==
    /\ upc = "format"
    /\ uid_set' = Some(format_uid_set(uids, overflow_checks))
    /\ upc' = "formatted"
    /\ UNCHANGED <<from_header, normalized, uids, overflow_checks>>
    /\ UNCHANGED <<analysisVars, batchVars, scanVars, groupVars, imapVars,
                   fetchVars, selectVars, workflowVars, pipeVars>>

NextFormat == FormatUidSet
SpecFormat == InitFormat /\ [][NextFormat]_vars

----------------------------------------------------------------------------
(* delete_messages and move_to_spam: one step per IMAP command *)

Ok(n) == [ok |-> TRUE, value |-> n]
Err == [ok |-> FALSE]

ImapFunctions == {"delete_messages", "move_to_spam"}

\* the folder of uid_copy
destination(f) ==
    IF f = "delete_messages" THEN "[Gmail]/Trash" ELSE "[Gmail]/Spam"

Command(name, arg, ok) == [name |-> name, arg |-> arg, ok |-> ok]

\* the `?` after a command that ignores its error and goes on
question_mark_ignored(ok, next) == [pc |-> next, result |-> None]

\* the `?` after a command: an error returns it, Ok goes on to `next`
question_mark(ok, next) ==
    IF ok THEN [pc |-> next, result |-> None]
    ELSE [pc |-> "returned", result |-> Some(Err)]

InitActions ==
    /\ AnalysisIdle
    /\ BatchIdle
    /\ ScanIdle
    /\ GroupIdle
    /\ FetchIdle
    /\ SelectIdle
    /\ WorkflowIdle
    /\ PipeIdle
    /\ upc = "idle"
    /\ from_header = << >>
    /\ normalized = None
    /\ uids = << >>
    /\ overflow_checks \in BOOLEAN
    /\ uid_set = None
    /\ ipc = "called"
    /\ imap_fn \in ImapFunctions
    /\ imap_uids \in SeqsUpTo(UidValues, MaxActionUids)
    /\ imap_uid_set = << >>
    /\ commands = << >>
    /\ imap_result = None

\* if uids.is_empty() { return Ok(0) }; let uid_set = format_uid_set(uids);
\* let count = uids.len()
ActionStart ==
    /\ ipc = "called"
    /\ IF imap_uids = << >>
       THEN /\ ipc' = "returned"
            /\ imap_result' = Some(Ok(0))
            /\ UNCHANGED imap_uid_set
       ELSE LET formatted == format_uid_set(imap_uids, overflow_checks)
            IN  IF formatted.panic
                THEN /\ ipc' = "panicked"
                     /\ UNCHANGED <<imap_uid_set, imap_result>>
                ELSE /\ ipc' = "select"
                     /\ imap_uid_set' = formatted.value
                     /\ UNCHANGED imap_result
    /\ UNCHANGED <<imap_fn, imap_uids, commands>>
    /\ UNCHANGED <<analysisVars, batchVars, scanVars, groupVars, utilVars,
                   fetchVars, selectVars, workflowVars, pipeVars>>

\* one command on the session followed by `?`; a failure stands for an error
\* of the command or of its response stream (try_collect().await?)
Issue(at, name, arg, next) ==
    /\ ipc = at
    /\ \E ok \in BOOLEAN :
           /\ commands' = Append(commands, Command(name, arg, ok))
           /\ ipc' = question_mark(ok, next).pc
           /\ imap_result' = question_mark(ok, next).result
    /\ UNCHANGED <<imap_fn, imap_uids, imap_uid_set>>
    /\ UNCHANGED <<analysisVars, batchVars, scanVars, groupVars, utilVars,
                   fetchVars, selectVars, workflowVars, pipeVars>>

\* session.select("INBOX").await.context(...)?
Select == Issue("select", "SELECT", <<"INBOX">>, "copy")

\* session.uid_copy(&uid_set, "[Gmail]/Trash" or "[Gmail]/Spam").await?
UidCopy ==
    Issue("copy", "UID COPY", <<imap_uid_set, destination(imap_fn)>>, "store")

\* session.uid_store(&uid_set, "+FLAGS.SILENT (\\Deleted)").await?
\*     .try_collect().await?
UidStore ==
    Issue("store", "UID STORE",
          <<imap_uid_set, "+FLAGS.SILENT (\\Deleted)">>, "expunge")

\* session.expunge().await?.try_collect().await?
Expunge == Issue("expunge", "EXPUNGE", << >>, "count")

\* Ok(count)
ActionReturn ==
    /\ ipc = "count"
    /\ ipc' = "returned"
    /\ imap_result' = Some(Ok(Len(imap_uids)))
    /\ UNCHANGED <<imap_fn, imap_uids, imap_uid_set, commands>>
    /\ UNCHANGED <<analysisVars, batchVars, scanVars, groupVars, utilVars,
                   fetchVars, selectVars, workflowVars, pipeVars>>

NextActions ==
    ActionStart \/ Select \/ UidCopy \/ UidStore \/ Expunge \/ ActionReturn
SpecActions == InitActions /\ [][NextActions]_vars

----------------------------------------------------------------------------
(* fetch_headers_batch: one step per response read from the stream *)

\* the header bytes of a response: bytes parse_mail rejects, or a header
\* block with or without a From line
RawHeaders ==
    {[parses |-> FALSE],
     [parses |-> TRUE, from |-> None],
     [parses |-> TRUE, from |-> Some(<<"jane">>)]}

\* a FETCH response: msg.uid and msg.header() are Options
Fetch(uid, header) == [uid |-> uid, header |-> header]
Responses ==
    {Fetch(u, h) : u \in {None, Some(U32(0, 1)), Some(U32(0, 2))},
                   h \in {None} \cup {Some(r) : r \in RawHeaders}}

\* parse_message_header: parse_mail(raw)? and the From value or ""
parse_message_header(uid, raw) ==
    IF ~raw.parses THEN Err
    ELSE Ok(MessageHeader(uid,
                          IF raw.from = None THEN << >> ELSE raw.from[1],
                          None, None))

\* the loop body with a parse error that empties the collected headers
receive_resetting(msg, hs) ==
    IF msg.uid # None /\ msg.header # None
    THEN LET parsed == parse_message_header(msg.uid[1], msg.header[1])
         IN  IF parsed.ok THEN Append(hs, parsed.value) ELSE << >>
    ELSE hs

\* the loop body on `headers`: push the parsed header, skip the others
receive(msg, hs) ==
    IF msg.uid # None /\ msg.header # None
    THEN LET parsed == parse_message_header(msg.uid[1], msg.header[1])
         IN  IF parsed.ok THEN Append(hs, parsed.value) ELSE hs
    ELSE hs

\* the tracing::warn! of the loop body, if any
warning(msg) ==
    IF msg.uid # None /\ msg.header # None
    THEN IF parse_message_header(msg.uid[1], msg.header[1]).ok THEN << >>
         ELSE <<[warn |-> "Failed to parse header", uid |-> msg.uid[1]]>>
    ELSE <<[warn |-> "Message missing UID or header", uid |-> msg.uid,
            header |-> msg.header # None]>>

InitFetchBatch ==
    /\ AnalysisIdle
    /\ BatchIdle
    /\ ScanIdle
    /\ GroupIdle
    /\ ImapIdle
    /\ SelectIdle
    /\ WorkflowIdle
    /\ PipeIdle
    /\ upc = "idle"
    /\ from_header = << >>
    /\ normalized = None
    /\ uids = << >>
    /\ overflow_checks \in BOOLEAN
    /\ uid_set = None
    /\ fpc = "called"
    /\ fetch_uids \in {<< >>, <<U32(0, 1), U32(0, 2)>>, <<U32Max, U32(0, 1)>>}
    /\ responses \in SeqsUpTo(Responses, MaxResponses)
    /\ cursor = 0
    /\ headers = << >>
    /\ warnings = << >>
    /\ fetch_error = None
    /\ fetch_result = None

\* if uids.is_empty() { return Ok(vec![]) }; format_uid_set(uids);
\* session.uid_fetch(&uid_set, "BODY.PEEK[HEADER]").await.context(...)?
FetchStart ==
    /\ fpc = "called"
    /\ IF fetch_uids = << >>
       THEN /\ fpc' = "returned"
            /\ fetch_result' = Some(Ok(<< >>))
            /\ UNCHANGED fetch_error
       ELSE IF format_uid_set(fetch_uids, overflow_checks).panic
       THEN /\ fpc' = "panicked"
            /\ UNCHANGED <<fetch_error, fetch_result>>
       ELSE \/ /\ fpc' = "stream"
               /\ UNCHANGED <<fetch_error, fetch_result>>
            \/ /\ fpc' = "returned"
               /\ fetch_error' = Some("uid_fetch")
               /\ fetch_result' = Some(Err)
    /\ UNCHANGED <<fetch_uids, responses, cursor, headers, warnings>>
    /\ UNCHANGED <<analysisVars, batchVars, scanVars, groupVars, utilVars,
                   imapVars, selectVars, workflowVars, pipeVars>>

\* messages_stream.try_next().await.context(...)? is an Err
StreamFails ==
    /\ fpc = "stream"
    /\ fpc' = "returned"
    /\ fetch_error' = Some("try_next")
    /\ fetch_result' = Some(Err)
    /\ UNCHANGED <<fetch_uids, responses, cursor, headers, warnings>>
    /\ UNCHANGED <<analysisVars, batchVars, scanVars, groupVars, utilVars,
                   imapVars, selectVars, workflowVars, pipeVars>>

\* try_next() is Ok(Some(msg)): the loop body
ReceiveMessage ==
    /\ fpc = "stream"
    /\ cursor < Len(responses)
    /\ cursor' = cursor + 1
    /\ headers' = receive(responses[cursor + 1], headers)
    /\ warnings' = warnings \o warning(responses[cursor + 1])
    /\ UNCHANGED <<fpc, fetch_uids, responses, fetch_error, fetch_result>>
    /\ UNCHANGED <<analysisVars, batchVars, scanVars, groupVars, utilVars,
                   imapVars, selectVars, workflowVars, pipeVars>>

\* try_next() is Ok(None): Ok(headers)
StreamEnds ==
    /\ fpc = "stream"
    /\ cursor = Len(responses)
    /\ fpc' = "returned"
    /\ fetch_result' = Some(Ok(headers))
    /\ UNCHANGED <<fetch_uids, responses, cursor, headers, warnings,
                   fetch_error>>
    /\ UNCHANGED <<analysisVars, batchVars, scanVars, groupVars, utilVars,
                   imapVars, selectVars, workflowVars, pipeVars>>

NextFetchBatch == FetchStart \/ StreamFails \/ ReceiveMessage \/ StreamEnds
SpecFetchBatch == InitFetchBatch /\ [][NextFetchBatch]_vars

----------------------------------------------------------------------------
(* select_senders on a list of senders.  A name is a sequence of tokens, so *)
(* that <<"News">> is a prefix of <<"News", "letter">> as "News" is of      *)
(* "Newsletter".                                                            *)

SenderEmails == {<<"a@b.co">>, <<"a@b.co", "m">>, <<"x@y.z">>}
DisplayNames == {None, Some(<<"News">>), Some(<<"News", "letter">>)}
SenderMethods == {NoMethod, OneClick(<<"https://", "b">>)}
SenderScores == {F32_0_5, F32_1_0}

SelectableSenders ==
    {[email |-> e, display_name |-> d, message_count |-> 3,
      unsubscribe_method |-> m, heuristic_score |-> x] :
        e \in SenderEmails, d \in DisplayNames, m \in SenderMethods,
        x \in SenderScores}

\* lists of senders with distinct emails (the keys of group_by_sender's map)
SenderLists ==
    {l \in SeqsUpTo(SelectableSenders, MaxSelectSenders) :
        \A i, j \in DOMAIN l : i # j => l[i].email # l[j].email}

\* sort_by(|a, b| b.heuristic_score.partial_cmp(&a.heuristic_score)): a
\* stable sort by descending score
RECURSIVE insert_by_score(_, _)
insert_by_score(list, x) ==
    IF list = << >> THEN <<x>>
    ELSE IF list[Len(list)].heuristic_score >= x.heuristic_score
    THEN Append(list, x)
    ELSE Append(insert_by_score(SubSeq(list, 1, Len(list) - 1), x),
                list[Len(list)])

RECURSIVE sort_by_score(_)
sort_by_score(list) ==
    IF list = << >> THEN << >>
    ELSE insert_by_score(sort_by_score(SubSeq(list, 1, Len(list) - 1)),
                         list[Len(list)])

\* s.display_name.as_ref().unwrap_or(&s.email)
name_of(s) == IF s.display_name = None THEN s.email ELSE s.display_name[1]

\* {:.2} of an f32 score (in units of 2^-26)
two_decimals(x) ==
    LET h == (x \div 67108864) * 100
               + (((x % 67108864) * 25 + 8388608) \div 16777216)
    IN  <<ToString(h \div 100), ".", ToString((h % 100) \div 10),
          ToString(h % 10)>>

method_label(m) ==
    IF is_one_click(m) THEN "One-Click"
    ELSE IF is_available(m) THEN "Manual"
    ELSE "No unsub"

\* format!("{} ({} msgs) {} [score: {:.2}]", name, count, method, score)
option_line(s) ==
    name_of(s) \o <<" (", ToString(s.message_count), " msgs) ",
                    method_label(s.unsubscribe_method), " [score: ">>
               \o two_decimals(s.heuristic_score) \o <<"]">>

\* str::starts_with
starts_with(line, prefix) ==
    /\ Len(prefix) <= Len(line)
    /\ SubSeq(line, 1, Len(prefix)) = prefix

\* sorted.iter().find(|sender| s.starts_with(name)).cloned(): the first
\* sender of `list` whose name the line starts with, as an Option
find_sender(list, line) ==
    LET hits == {i \in DOMAIN list : starts_with(line, name_of(list[i]))}
    IN  IF hits = {} THEN None
        ELSE Some(list[CHOOSE i \in hits : \A j \in hits : i <= j])

\* selected_strs.iter().filter_map(find ...).collect()
RECURSIVE map_back(_, _)
map_back(list, lines) ==
    IF lines = << >> THEN << >>
    ELSE find_sender(list, Head(lines)) \o map_back(list, Tail(lines))

\* the increasing sequence of the positions in P
RECURSIVE Ascending(_)
Ascending(P) ==
    IF P = {} THEN << >>
    ELSE LET m == CHOOSE i \in P : \A j \in P : i <= j
         IN  <<m>> \o Ascending(P \ {m})

InitSelect ==
    /\ AnalysisIdle
    /\ BatchIdle
    /\ ScanIdle
    /\ GroupIdle
    /\ UtilIdle
    /\ ImapIdle
    /\ FetchIdle
    /\ WorkflowIdle
    /\ PipeIdle
    /\ spc = "called"
    /\ sel_senders \in SenderLists
    /\ sorted = << >>
    /\ options = << >>
    /\ selected_strs = << >>
    /\ chosen = << >>
    /\ selected = None

\* filter, the early return on an empty list, sort and the option lines
SelectOffer ==
    /\ spc = "called"
    /\ LET filtered == SelectSeq(sel_senders, select_filter)
       IN  IF filtered = << >>
           THEN /\ spc' = "returned"
                /\ selected' = Some(Ok(<< >>))
                /\ UNCHANGED <<sorted, options>>
           ELSE /\ spc' = "prompt"
                /\ sorted' = sort_by_score(filtered)
                /\ options' = [i \in DOMAIN filtered |->
                                  option_line(sort_by_score(filtered)[i])]
                /\ UNCHANGED selected
    /\ UNCHANGED <<sel_senders, selected_strs, chosen>>
    /\ UNCHANGED <<analysisVars, batchVars, scanVars, groupVars, utilVars,
                   imapVars, fetchVars, workflowVars, pipeVars>>

\* MultiSelect::new(...).prompt()? is an Err
SelectPromptFails ==
    /\ spc = "prompt"
    /\ spc' = "returned"
    /\ selected' = Some(Err)
    /\ UNCHANGED <<sel_senders, sorted, options, selected_strs, chosen>>
    /\ UNCHANGED <<analysisVars, batchVars, scanVars, groupVars, utilVars,
                   imapVars, fetchVars, workflowVars, pipeVars>>

\* the user picks some of the lines; they are mapped back to senders
SelectPick ==
    /\ spc = "prompt"
    /\ \E P \in SUBSET DOMAIN options :
           /\ chosen' = Ascending(P)
           /\ selected_strs' = [k \in DOMAIN Ascending(P) |->
                                   options[Ascending(P)[k]]]
           /\ selected' = Some(Ok(map_back(sorted,
                               [k \in DOMAIN Ascending(P) |->
                                   options[Ascending(P)[k]]])))
    /\ spc' = "returned"
    /\ UNCHANGED <<sel_senders, sorted, options>>
    /\ UNCHANGED <<analysisVars, batchVars, scanVars, groupVars, utilVars,
                   imapVars, fetchVars, workflowVars, pipeVars>>

NextSelect == SelectOffer \/ SelectPromptFails \/ SelectPick
SpecSelect == InitSelect /\ [][NextSelect]_vars

----------------------------------------------------------------------------
(* Workflow::cleanup_sender (src/application/workflow.rs).  plan_cleanup    *)
(* and the sender's unsubscribe_post_url are not in the sources; they       *)
(* follow the ActionPlan policy and the data model of the specification.    *)

\* ActionPlan policy: should_unsubscribe = (resolved_method is OneClick),
\* should_block = !should_unsubscribe, should_delete = true
plan_cleanup(s) ==
    [should_unsubscribe |-> is_one_click(s.unsubscribe_method),
     should_block |-> ~is_one_click(s.unsubscribe_method),
     should_delete |-> TRUE]

\* the URL of the one-click POST: the url of OneClick{url}
unsubscribe_post_url(m) == IF is_one_click(m) THEN Some(m.url) ELSE None

\* HttpClient::is_safe_url
is_safe_url(url) ==
    /\ url # << >>
    /\ Head(url) = "https://"
    /\ ~contains(url, "mailto:")

WorkflowUrls ==
    {<<"https://", "b">>, <<"https://", "c">>, <<"http://", "b">>,
     <<"https://", "mailto:", "b">>}

WorkflowSenders ==
    {[email |-> <<"news", "@site.com">>, message_count |-> n,
      unsubscribe_method |-> m,
      unsubscribe_post_url |-> unsubscribe_post_url(m)] :
        n \in 1..MaxWorkflowMessages,
        m \in {NoMethod, Mailto(<<"b">>)}
                \cup {OneClick(u) : u \in WorkflowUrls}
                \cup {HttpLink(u) : u \in WorkflowUrls}}

CleanupResult(u, b, n, e) ==
    [unsubscribed |-> u, blocked |-> b, messages_deleted |-> n, error |-> e]

\* if plan.should_block && !result.unsubscribed
block_needed(p, r) == p.should_block /\ ~r.unsubscribed

InitWorkflow ==
    /\ AnalysisIdle
    /\ BatchIdle
    /\ ScanIdle
    /\ GroupIdle
    /\ UtilIdle
    /\ ImapIdle
    /\ FetchIdle
    /\ SelectIdle
    /\ PipeIdle
    /\ wpc = "unsubscribe"
    /\ w_sender \in WorkflowSenders
    /\ plan = plan_cleanup(w_sender)
    /\ cleanup_result = CleanupResult(FALSE, FALSE, 0, None)
    /\ post_outcome = "none"
    /\ filter_outcome = "none"

\* the unsubscribe step: the POST is sent only for a plan that asks for it,
\* a sender with a URL and a safe URL
TryUnsubscribe ==
    /\ wpc = "unsubscribe"
    /\ IF /\ plan.should_unsubscribe
          /\ w_sender.unsubscribe_post_url # None
          /\ is_safe_url(w_sender.unsubscribe_post_url[1])
       THEN \E outcome \in {"success", "status", "error"} :
               /\ post_outcome' = outcome
               /\ cleanup_result' =
                      [cleanup_result EXCEPT
                          !.unsubscribed = (outcome = "success")]
       ELSE /\ post_outcome' =
                   IF ~plan.should_unsubscribe THEN "not_planned"
                   ELSE IF w_sender.unsubscribe_post_url = None
                   THEN "no_url" ELSE "unsafe"
            /\ UNCHANGED cleanup_result
    /\ wpc' = "block"
    /\ UNCHANGED <<w_sender, plan, filter_outcome>>
    /\ UNCHANGED <<analysisVars, batchVars, scanVars, groupVars, utilVars,
                   imapVars, fetchVars, selectVars, pipeVars>>

\* the block step: create_trash_filter
BlockIfNeeded ==
    /\ wpc = "block"
    /\ IF block_needed(plan, cleanup_result)
       THEN \/ /\ filter_outcome' = "created"
               /\ cleanup_result' = [cleanup_result EXCEPT !.blocked = TRUE]
            \/ /\ filter_outcome' = "failed"
               /\ cleanup_result' =
                      [cleanup_result EXCEPT
                          !.error = Some("Filter creation failed")]
       ELSE /\ filter_outcome' = "skipped"
            /\ UNCHANGED cleanup_result
    /\ wpc' = "delete"
    /\ UNCHANGED <<w_sender, plan, post_outcome>>
    /\ UNCHANGED <<analysisVars, batchVars, scanVars, groupVars, utilVars,
                   imapVars, fetchVars, selectVars, pipeVars>>

\* the delete step: the confirmation, then delete_from_sender
DeleteConfirmed ==
    /\ wpc = "delete"
    /\ IF plan.should_delete
       THEN \/ UNCHANGED cleanup_result
            \/ \E count \in 0..w_sender.message_count :
                   cleanup_result' =
                       [cleanup_result EXCEPT !.messages_deleted = count]
            \/ cleanup_result' =
                   [cleanup_result EXCEPT !.error = Some("Deletion failed")]
       ELSE UNCHANGED cleanup_result
    /\ wpc' = "done"
    /\ UNCHANGED <<w_sender, plan, post_outcome, filter_outcome>>
    /\ UNCHANGED <<analysisVars, batchVars, scanVars, groupVars, utilVars,
                   imapVars, fetchVars, selectVars, pipeVars>>

NextWorkflow == TryUnsubscribe \/ BlockIfNeeded \/ DeleteConfirmed
SpecWorkflow == InitWorkflow /\ [][NextWorkflow]_vars

----------------------------------------------------------------------------
(* The batches of scan_inbox (src/cli/scan.rs) together with the tasks     *)
(* batch_get_headers spawns for them.  The tasks of a chunk are counted:   *)
(* not yet past the semaphore, in flight (between acquire and return,      *)
(* retries included), returned Some, returned None.  A spawned task runs   *)
(* whether or not its caller still waits for it.                           *)

Spawn(n) == [unstarted |-> n, running |-> 0, succeeded |-> 0, dropped |-> 0]

\* a join_all that returns as soon as every task has got its permit
join_all_ready_early(p) == p.unstarted = 0

\* join_all(tasks).await returns when every task has returned
join_all_ready(p) == p.unstarted = 0 /\ p.running = 0

\* the first id of the chunk the loop takes next
NextFirst == Len(handed) * GmailBatchSize + 1

InitPipeline ==
    /\ AnalysisIdle
    /\ BatchIdle
    /\ ScanIdle
    /\ GroupIdle
    /\ UtilIdle
    /\ ImapIdle
    /\ FetchIdle
    /\ SelectIdle
    /\ WorkflowIdle
    /\ ppc = "loop"
    /\ listed \in 0..MaxScanMessages
    /\ handed = << >>
    /\ progress = << >>
    /\ collected = 0

\* the next chunk of all_message_ids.chunks(batch_size) is handed to
\* batch_get_headers, which spawns one task per id
HandChunk ==
    /\ ppc = "loop"
    /\ NextFirst <= listed
    /\ handed' = Append(handed, Chunk(NextFirst, GmailBatchSize, listed))
    /\ progress' = Append(progress,
                          Spawn(Len(Chunk(NextFirst, GmailBatchSize, listed))))
    /\ ppc' = "await"
    /\ UNCHANGED <<listed, collected>>
    /\ UNCHANGED <<analysisVars, batchVars, scanVars, groupVars, utilVars,
                   imapVars, fetchVars, selectVars, workflowVars>>

\* a task of a handed chunk gets a permit of its call's semaphore and
\* starts its first fetch attempt
TaskStarts ==
    /\ \E k \in DOMAIN progress :
           /\ progress[k].unstarted > 0
           /\ acquire_ready(SemaphorePermits - progress[k].running)
           /\ progress' = [progress EXCEPT
                              ![k].unstarted = @ - 1, ![k].running = @ + 1]
    /\ UNCHANGED <<ppc, listed, handed, collected>>
    /\ UNCHANGED <<analysisVars, batchVars, scanVars, groupVars, utilVars,
                   imapVars, fetchVars, selectVars, workflowVars>>

\* a task in flight returns Some(headers)
TaskSucceeds ==
    /\ \E k \in DOMAIN progress :
           /\ progress[k].running > 0
           /\ progress' = [progress EXCEPT
                              ![k].running = @ - 1, ![k].succeeded = @ + 1]
    /\ UNCHANGED <<ppc, listed, handed, collected>>
    /\ UNCHANGED <<analysisVars, batchVars, scanVars, groupVars, utilVars,
                   imapVars, fetchVars, selectVars, workflowVars>>

\* a task in flight gives up and returns None
TaskDrops ==
    /\ \E k \in DOMAIN progress :
           /\ progress[k].running > 0
           /\ progress[k].dropped < MaxDropped
           /\ progress' = [progress EXCEPT
                              ![k].running = @ - 1, ![k].dropped = @ + 1]
    /\ UNCHANGED <<ppc, listed, handed, collected>>
    /\ UNCHANGED <<analysisVars, batchVars, scanVars, groupVars, utilVars,
                   imapVars, fetchVars, selectVars, workflowVars>>

\* join_all returns, batch_get_headers returns Ok(headers) and the loop
\* body extends all_headers
ChunkReturns ==
    /\ ppc = "await"
    /\ join_all_ready(progress[Len(progress)])
    /\ collected' = collected + progress[Len(progress)].succeeded
    /\ ppc' = "loop"
    /\ UNCHANGED <<listed, handed, progress>>
    /\ UNCHANGED <<analysisVars, batchVars, scanVars, groupVars, utilVars,
                   imapVars, fetchVars, selectVars, workflowVars>>

\* no chunk is left
ChunksDone ==
    /\ ppc = "loop"
    /\ NextFirst > listed
    /\ ppc' = "done"
    /\ UNCHANGED <<listed, handed, progress, collected>>
    /\ UNCHANGED <<analysisVars, batchVars, scanVars, groupVars, utilVars,
                   imapVars, fetchVars, selectVars, workflowVars>>

NextPipeline ==
    \/ HandChunk \/ TaskStarts \/ TaskSucceeds \/ TaskDrops
    \/ ChunkReturns \/ ChunksDone
SpecPipeline == InitPipeline /\ [][NextPipeline]_vars

NextScore == CalculateHeuristicScore
SpecScore == InitScore /\ [][NextScore]_vars

NextAnalyze == AnalyzeSender
SpecAnalyze == InitAnalyze /\ [][NextAnalyze]_vars

NextPlan == AnalyzeSender \/ PlanAction
SpecPlan == InitCleanup /\ [][NextPlan]_vars

NextCleanup == AnalyzeSender \/ SelectSenders \/ ExecuteCleanup
SpecCleanup == InitCleanup /\ [][NextCleanup]_vars

----------------------------------------------------------------------------
(* Properties of the scorer and of the unsubscribe resolver *)

\* C1: a score computed without the unsubscribe header never exceeds 0.5,
\* whatever the address and the message count.
ScoreCappedWithoutHeader ==
    (apc = "scored" /\ ~has_unsubscribe) => score <= F32_0_5

\* the cap has acted: keyword address and more than 30 messages, no header
ScoreCapApplied ==
    /\ apc = "scored"
    /\ ~has_unsubscribe
    /\ message_count > 30
    /\ contains(email, "Newsletter")
    /\ score = F32_0_5

\* the List-Unsubscribe-Post header carries the one-click flag in some case
OneClickSpellings == {"one-click", "One-Click", "ONE-CLICK"}
HasOneClickFlag ==
    /\ list_unsubscribe_post # None
    /\ \E i \in DOMAIN list_unsubscribe_post[1] :
          list_unsubscribe_post[1][i] \in OneClickSpellings

\* the URLs extracted from the List-Unsubscribe header
ExtractedUrls ==
    IF list_unsubscribe = None THEN << >>
    ELSE parse_list_unsubscribe(list_unsubscribe[1])

\* u is the bracketed URL that starts leftmost in the header
IsFirstUrl(u) ==
    /\ list_unsubscribe # None
    /\ LET h == list_unsubscribe[1] IN
       \E i \in DOMAIN h :
          /\ MatchEnd(h, i) # 0
          /\ \A k \in 1..(i - 1) : MatchEnd(h, k) = 0
          /\ u = SubSeq(h, i + 1, MatchEnd(h, i) - 1)

HasMailtoToken ==
    /\ list_unsubscribe # None
    /\ \E i \in DOMAIN list_unsubscribe[1] : list_unsubscribe[1][i] = "mailto:"

Method == sender[1].unsubscribe_method

\* C6: with the one-click flag (any letter case) and an extracted URL the
\* method is OneClick with the first URL of the header, mailto entry or not.
OneClickTakesFirstUrl ==
    (apc = "analyzed" /\ HasOneClickFlag /\ ExtractedUrls # << >>)
        => (Method.kind = "OneClick" /\ IsFirstUrl(Method.url))

\* one-click flag in capitals, two URLs and a mailto token in the header
OneClickWithMailtoSeen ==
    /\ apc = "analyzed"
    /\ list_unsubscribe_post = Some(<<"List-Unsubscribe=", "One-Click">>)
    /\ Len(ExtractedUrls) = 2
    /\ ExtractedUrls[1] # ExtractedUrls[2]
    /\ HasMailtoToken
    /\ Method = OneClick(ExtractedUrls[1])

\* C7: a header whose only bracketed URL is an http:// URL resolves to None.
HttpOnlyHeaderYieldsNone ==
    (/\ apc = "analyzed"
     /\ ExtractedUrls # << >>
     /\ \A i \in DOMAIN ExtractedUrls : ExtractedUrls[i][1] = "http://"
     /\ ~HasMailtoToken)
        => Method.kind = "None"

\* C8: one-click flag without an extracted URL resolves to None, also when
\* the header has a mailto entry.
OneClickWithoutUrlIsNone ==
    (apc = "analyzed" /\ HasOneClickFlag /\ ExtractedUrls = << >>)
        => Method.kind = "None"

OneClickWithoutUrlSeen ==
    /\ apc = "analyzed"
    /\ HasOneClickFlag
    /\ list_unsubscribe = Some(<<"<", "mailto:", "b", ">">>)
    /\ Method.kind = "None"

\* C9: without the one-click flag an extracted URL gives HttpLink with the
\* first URL of the header, ahead of any mailto entry.
HttpLinkTakesFirstUrl ==
    (apc = "analyzed" /\ ~HasOneClickFlag /\ ExtractedUrls # << >>)
        => (Method.kind = "HttpLink" /\ IsFirstUrl(Method.url))

HttpLinkBeforeMailtoSeen ==
    /\ apc = "analyzed"
    /\ list_unsubscribe_post = Some(<<"List-Unsubscribe=", "Manual">>)
    /\ list_unsubscribe =
          Some(<<"<", "mailto:", "b", ">", "<", "https://", "a", ">",
                 "<", "http://", "b", ">">>)
    /\ Method = HttpLink(<<"https://", "a">>)

\* C10: no URL, no one-click flag, a mailto: token: the method is Mailto and
\* the address is the text between the '<' that opens the mailto entry and
\* the following '>', without the mailto: prefix.
MailtoAddressIsBracketedText ==
    (apc = "analyzed" /\ ~HasOneClickFlag /\ ExtractedUrls = << >>
       /\ HasMailtoToken)
        => /\ Method.kind = "Mailto"
           /\ LET h == list_unsubscribe[1] IN
              \A i \in DOMAIN h :
                 LET j == FindFrom(h, ">", i + 1) IN
                 (/\ i + 1 <= Len(h) /\ h[i] = "<" /\ h[i + 1] = "mailto:"
                  /\ \A k \in 1..(i - 1) :
                        ~(h[k] = "<" /\ h[k + 1] = "mailto:")
                  /\ j # 0)
                    => Method.address = SubSeq(h, i + 2, j - 1)

----------------------------------------------------------------------------
(* Properties of batch_get_headers *)

\* tasks that hold a permit: in a fetch attempt or asleep between attempts
PermitHolders == BagCardinality([t \in TasksAt({"fetch", "sleep"}) |-> tasks[t]])

\* C2: at most 10 spawned tasks hold a permit at any time, whatever the
\* size of the batch.
AtMostTenInFlight == PermitHolders <= 10

\* all ten permits are out, one holder is asleep and a task is kept waiting
GateFullSeen ==
    /\ call = "running"
    /\ PermitHolders = 10
    /\ TasksAt({"sleep"}) # {}
    /\ TasksAt({"acquire"}) # {}

\* the sleep before the k-th retry
BackoffMs(k) == CASE k = 1 -> 100 [] k = 2 -> 200 [] k = 3 -> 400

\* C3: a task makes at most 3 retries (4 attempts), and sleeps 100ms, 200ms
\* and 400ms before the 1st, 2nd and 3rd retry.
RetriesBoundedWithBackoff ==
    \A t \in TasksAt({"fetch", "sleep"}) :
       /\ t.retries <= 3
       /\ t.pc = "sleep" =>
             (t.retries + 1 <= 3 /\ t.delay_ms = BackoffMs(t.retries + 1))

\* one task is in its fourth attempt while another sleeps before its third retry
FourthAttemptSeen ==
    /\ \E t \in TasksAt({"fetch"}) : t.retries = 3
    /\ \E t \in TasksAt({"sleep"}) : t.retries = 2 /\ t.delay_ms = 400

Occurrences(q, x) == Cardinality({i \in DOMAIN q : q[i] = x})

\* C4: the call returns Ok whatever the per-message outcomes, and the
\* returned headers are those of exactly the ids whose task had a
\* successful attempt, each once.
BatchReturnsSuccessfulHeaders ==
    call = "returned" =>
       /\ result # None /\ result[1].ok
       /\ \A i \in DOMAIN message_ids :
             Occurrences(result[1].headers, message_ids[i]) =
                 IF BagIn(ReturnedSome(message_ids[i]), tasks) THEN 1 ELSE 0
       /\ Range(result[1].headers) \subseteq Range(message_ids)

\* the second of three messages was dropped, the others were returned
PartialBatchSeen ==
    /\ call = "returned"
    /\ message_ids = <<1, 2, 3>>
    /\ BagIn(ReturnedNone(2), tasks)
    /\ result = Some([ok |-> TRUE, headers |-> <<1, 3>>])

----------------------------------------------------------------------------
(* Properties of the scans *)

\* C5: a scan fails only when the ids cannot be enumerated; a failure while
\* fetching headers never turns the scan into an error.
ScanFailsOnlyOnEnumeration ==
    scan_pc = "failed" => scan_error \in {Some("list"), Some("search")}

\* C11: the method is None when List-Unsubscribe is absent, whatever the
\* List-Unsubscribe-Post header, and when List-Unsubscribe is present with
\* neither an extractable URL nor a mailto: token.
NoUnsubscribeInfoIsNone ==
    (/\ apc = "analyzed"
     /\ \/ list_unsubscribe = None
        \/ (ExtractedUrls = << >> /\ ~HasMailtoToken))
        => Method.kind = "None"

\* a sender without List-Unsubscribe but with a one-click
\* List-Unsubscribe-Post has been resolved to None
AbsentHeaderUnderOneClickSeen ==
    /\ apc = "analyzed"
    /\ list_unsubscribe = None
    /\ HasOneClickFlag
    /\ Method = NoMethod

\* the address contains a newsletter keyword, in any letter case
KeywordSpellings == {"newsletter", "Newsletter", "News@", "info@"}
EmailHasKeyword == \E i \in DOMAIN email : email[i] \in KeywordSpellings

\* C15: with the unsubscribe header, a keyword in the address and more than
\* 30 messages the score is strictly greater than 1.0.
FullSignalsExceedOne ==
    (apc = "scored" /\ has_unsubscribe /\ message_count > 30 /\ EmailHasKeyword)
        => score > F32_1_0

\* a keyword address with the header and 31 messages has been scored 1.3
ThirtyOneMessagesScored ==
    /\ apc = "scored"
    /\ has_unsubscribe
    /\ message_count = 31
    /\ email = <<"newsletter", "@site.com">>
    /\ score = 87241520

\* the f32 nearest to t / 10 (units of 2^-26)
F32OfTenths(t) ==
    LET n10 == t * F32_1_0
        u == Ulp(n10 \div 10)
        q == n10 \div (10 * u)
        r == n10 % (10 * u)
    IN  IF 2 * r < 10 * u THEN q * u
        ELSE IF 2 * r > 10 * u THEN (q + 1) * u
        ELSE IF q % 2 = 0 THEN q * u
        ELSE (q + 1) * u

\* the additive formula in tenths: 5 for the header, 3 once for a keyword, 2
\* above 10 messages, 3 more above 30, clamped to 5 without the header
ExpectedTenths ==
    LET raw == (IF has_unsubscribe THEN 5 ELSE 0)
               + (IF EmailHasKeyword THEN 3 ELSE 0)
               + (IF message_count > 10 THEN 2 ELSE 0)
               + (IF message_count > 30 THEN 3 ELSE 0)
    IN  IF ~has_unsubscribe /\ raw > 5 THEN 5 ELSE raw

\* C16: the score is the additive formula: 0.5 for the header, 0.3 once for
\* any number of keywords, 0.2 above 10 messages and a further 0.3 above 30
\* (strict thresholds), clamped to 0.5 only when the header is absent.
ScoreIsAdditiveFormula ==
    apc = "scored" => score = F32OfTenths(ExpectedTenths)

\* an address with two keywords, the header and 35 messages has been scored
\* 1.3, the maximum
TwoKeywordsScoredOnce ==
    /\ apc = "scored"
    /\ has_unsubscribe
    /\ message_count = 35
    /\ email = <<"newsletter", "info@">>
    /\ score = F32OfTenths(13)
    /\ score = 87241520

\* the error texts of the three transient classes: rate limit (429), 5xx
\* status (500, 503), timeout
TransientTexts == {<<"429">>, <<"500">>, <<"503">>, <<"timeout">>}

\* a task whose attempt number retries + 1 just failed returns None
DroppedAfter(retries) ==
    \E t \in TasksAt({"fetch"}) :
        /\ t.retries = retries
        /\ tasks' = Move(tasks, t, ReturnedNone(t.id))

\* C17: an attempt that fails with a transient error (rate limit, any 5xx,
\* timeout) after fewer than 3 retries is followed by a backoff and another
\* attempt, never by the drop of the message.
TransientFailureIsRetried ==
    [][(fault # None /\ fault[1] \in TransientTexts)
          => \A k \in 0..(max_retries - 1) : ~DroppedAfter(k)]_vars

----------------------------------------------------------------------------
(* Properties of the planner and of the interactive cleanup *)

PlannedType == action[1].action_type

\* what an action type stands for (ActionType in models.rs)
Unsubscribes(t) == t = "UnsubscribeAndDelete"
Blocks(t) == t = "SpamAndDelete"
Deletes(t) == t \in {"UnsubscribeAndDelete", "SpamAndDelete", "DeleteOnly"}

\* C12: plan_action yields UnsubscribeAndDelete exactly for a OneClick
\* method and SpamAndDelete for HttpLink, Mailto and None; every plan
\* deletes, and does exactly one of unsubscribe and block.
PlanFollowsMethod ==
    apc = "planned" =>
        /\ PlannedType \in ActionTypes
        /\ Unsubscribes(PlannedType) <=> Method.kind = "OneClick"
        /\ Method.kind \in {"HttpLink", "Mailto", "None"} => Blocks(PlannedType)
        /\ Deletes(PlannedType)
        /\ Unsubscribes(PlannedType) # Blocks(PlannedType)
        /\ action[1].sender = sender[1]

\* a sender with a manual HTTP link has been planned for block and delete
HttpLinkSenderPlanned ==
    /\ apc = "planned"
    /\ Method.kind = "HttpLink"
    /\ PlannedType = "SpamAndDelete"

\* C19: a one-click POST goes only to a URL that starts with https://.
PostsOnlyToHttps ==
    \A i \in DOMAIN issued :
        issued[i].op = "post" => issued[i].url[1] = "https://"

\* C21: move_to_spam is issued only after a yes to the block prompt and
\* delete_messages only after a yes to the delete prompt; when no prompt is
\* answered yes, no command that changes the mailbox is issued.
ReviewBeforeDeletion ==
    /\ \A i \in DOMAIN issued :
          /\ issued[i].op = "move_to_spam" =>
                \E j \in 1..(i - 1) : issued[j] = Prompt("block", "yes")
          /\ issued[i].op = "delete_messages" =>
                \E j \in 1..(i - 1) : issued[j] = Prompt("delete", "yes")
    /\ (\A i \in DOMAIN issued :
            issued[i].op = "prompt" => issued[i].answer # "yes")
          => \A i \in DOMAIN issued :
                issued[i].op \notin {"move_to_spam", "delete_messages"}

\* the user agreed to block, move_to_spam failed, the user agreed to delete
BlockFailedThenDeleted ==
    /\ apc = "cleaned"
    /\ issued = <<Prompt("block", "yes"), MoveToSpam(FALSE),
                  Prompt("delete", "yes"), DeleteMessages>>

\* C20: a sender offered by select_senders has a List-Unsubscribe header; a
\* sender without it has method None and a score of at most 0.5 and fails
\* both conditions of the filter.
OfferedSendersHaveHeader ==
    /\ (offered = Some(TRUE)) => list_unsubscribe # None
    /\ (offered # None /\ list_unsubscribe = None) =>
            /\ Method.kind = "None"
            /\ sender[1].heuristic_score <= F32_0_5
            /\ sender[1].heuristic_score < F32_0_6

\* a keyword address with 35 messages and no List-Unsubscribe header went
\* through select_senders and was not offered
HighVolumeSenderNotOffered ==
    /\ apc = "none_offered"
    /\ offered = Some(FALSE)
    /\ list_unsubscribe = None
    /\ email = <<"newsletter", "@site.com">>
    /\ message_count = MaxMessageCount
    /\ sender[1].heuristic_score = F32_0_5

----------------------------------------------------------------------------
(* Properties of the aggregation *)

\* positions of the input whose From normalizes to e
PositionsOf(e) ==
    {i \in DOMAIN group_input : extract_email(group_input[i].from).value = e}

\* C13: whatever the pieces of the fold and the order of the merges,
\* group_by_sender returns one group per distinct normalized email, every
\* header is in the group of its own email and in no other, and the group
\* sizes add up to the number of headers.
GroupingIsExact ==
    gpc \in {"panicked", "grouped"} =>
        /\ gpc = "grouped"
        /\ DOMAIN grouped = {extract_email(group_input[i].from).value :
                                i \in DOMAIN group_input}
        /\ \A e \in DOMAIN grouped :
              /\ Len(grouped[e]) = Cardinality(PositionsOf(e))
              /\ {grouped[e][j] : j \in DOMAIN grouped[e]}
                     = {group_input[i] : i \in PositionsOf(e)}

\* the inputs obtained by reordering group_input
Reorderings ==
    LET n == Len(group_input)
    IN  {[i \in 1..n |-> group_input[f[i]]] :
            f \in {g \in [1..n -> 1..n] : \A a, b \in 1..n : a # b => g[a] # g[b]}}

\* the senders scan_inbox builds from the headers h
SendersOf(h) ==
    LET g == fold_chunk(h)
    IN  [e \in DOMAIN g |-> sender_of_group(e, g[e])]

\* C14: the aggregated senders have the same message_count and the same
\* unsubscribe method for every reordering of the input.
AggregationIsOrderIndependent ==
    gpc = "analyzed" =>
        \A h \in Reorderings :
            /\ DOMAIN SendersOf(h) = DOMAIN senders
            /\ \A e \in DOMAIN senders :
                  /\ SendersOf(h)[e].info.message_count
                        = senders[e].info.message_count
                  /\ SendersOf(h)[e].info.unsubscribe_method
                        = senders[e].info.unsubscribe_method

\* all headers of the input have the From and the unsubscribe headers of
\* the first
OneSenderInput ==
    /\ group_input # << >>
    /\ \A i \in DOMAIN group_input :
          /\ group_input[i].from = group_input[1].from
          /\ group_input[i].list_unsubscribe = group_input[1].list_unsubscribe
          /\ group_input[i].list_unsubscribe_post
                = group_input[1].list_unsubscribe_post

Newsletter == <<"newsletter", "@site.com">>
Personal == <<"jane", "@family.com">>

\* C18: n headers of one sender with identical unsubscribe headers give one
\* sender with message_count n and the method, score and plan of that
\* header; the 35 one-click newsletters give OneClick, a score above 1.0
\* and unsubscribe + delete, the 50 personal messages give None, exactly
\* 0.5 and block + delete.
EndToEndFollowsHeader ==
    (gpc = "planned" /\ OneSenderInput) =>
        LET first == group_input[1]
            e == extract_email(first.from).value
            n == Len(group_input)
        IN  /\ DOMAIN senders = {e}
            /\ DOMAIN plans = {e}
            /\ senders[e].info.email = e
            /\ senders[e].info.message_count = n
            /\ Len(senders[e].message_uids) = n
            /\ senders[e].info.unsubscribe_method
                  = unsubscribe_method(first.list_unsubscribe,
                                       first.list_unsubscribe_post)
            /\ senders[e].info.heuristic_score
                  = calculate_heuristic_score(e, first.list_unsubscribe # None, n)
            /\ plans[e] = plan_action(senders[e].info)
            /\ group_input = NewsletterScenario =>
                  /\ e = Newsletter
                  /\ n = 35
                  /\ senders[e].info.unsubscribe_method
                        = OneClick(<<"https://", "a">>)
                  /\ senders[e].info.heuristic_score > F32_1_0
                  /\ plans[e].action_type = "UnsubscribeAndDelete"
            /\ group_input = PersonalScenario =>
                  /\ e = Personal
                  /\ n = 50
                  /\ senders[e].info.unsubscribe_method = NoMethod
                  /\ senders[e].info.heuristic_score = F32_0_5
                  /\ plans[e].action_type = "SpamAndDelete"

\* the 35 newsletters have been grouped, analyzed and planned
NewsletterScenarioPlanned ==
    /\ gpc = "planned"
    /\ group_input = NewsletterScenario
    /\ senders[Newsletter].info.message_count = 35
    /\ plans[Newsletter].action_type = "UnsubscribeAndDelete"

----------------------------------------------------------------------------
(* Properties of the sender normalization *)

\* C27: extract_email returns for every From string, with the text between
\* '<' and '>' when both occur and the trimmed string otherwise, letter
\* case preserved; it never panics.
NormalizationIsTotal ==
    upc = "extracted" =>
        /\ normalized[1].panic = FALSE
        /\ IF contains(from_header, "<") /\ contains(from_header, ">")
           THEN \E i, j \in DOMAIN from_header :
                   /\ i < j
                   /\ from_header[i] = "<"
                   /\ from_header[j] = ">"
                   /\ normalized[1].value = SubSeq(from_header, i + 1, j - 1)
           ELSE normalized[1].value = trim(from_header)

----------------------------------------------------------------------------
(* The header signal of the scorer inside analyze_sender *)

\* the score of a sender with the header, in tenths: no cap
TenthsWithHeader ==
    5 + (IF EmailHasKeyword THEN 3 ELSE 0)
      + (IF message_count > 10 THEN 2 ELSE 0)
      + (IF message_count > 30 THEN 3 ELSE 0)

\* C30: the scorer's header signal is the presence of List-Unsubscribe, not
\* the resolved method: without the header the method is None and the score
\* at most 0.5; with the header the 0.5 bonus is applied and no cap, also
\* when the method resolves to None.
HeaderPresenceDrivesScore ==
    apc = "analyzed" =>
        /\ list_unsubscribe = None =>
              /\ Method.kind = "None"
              /\ sender[1].heuristic_score <= F32_0_5
        /\ list_unsubscribe # None =>
              sender[1].heuristic_score = F32OfTenths(TenthsWithHeader)

\* a header without URL under a one-click flag: method None, score 1.3
UnresolvedHeaderScoredInFull ==
    /\ apc = "analyzed"
    /\ list_unsubscribe # None
    /\ HasOneClickFlag
    /\ Method = NoMethod
    /\ email = <<"newsletter", "@site.com">>
    /\ message_count = MaxMessageCount
    /\ sender[1].heuristic_score = 87241520

----------------------------------------------------------------------------
(* Properties of the UID set formatting *)

\* b = a + 1 as numbers
IsSuccessor(b, a) ==
    \/ a.lo < 65535 /\ b = U32(a.hi, a.lo + 1)
    \/ a.lo = 65535 /\ a.hi < 65535 /\ b = U32(a.hi + 1, 0)

AtMost(a, b) == a.hi < b.hi \/ (a.hi = b.hi /\ a.lo <= b.lo)

\* u belongs to the IMAP sequence set s: it is one of its numbers, or lies
\* in one of its ranges (a range covers the values between its two ends)
InUidSet(u, s) ==
    \E i \in DOMAIN s :
        \/ s[i] = Num(u)
        \/ /\ s[i] = Colon
           /\ i > 1
           /\ i < Len(s)
           /\ \/ AtMost(s[i - 1].value, u) /\ AtMost(u, s[i + 1].value)
              \/ AtMost(s[i + 1].value, u) /\ AtMost(u, s[i - 1].value)

\* C28: for every non-empty list of 32-bit UIDs format_uid_set returns, and
\* the produced sequence set denotes exactly the UIDs of the list: a single
\* UID alone, "first:last" exactly when every UID is its predecessor plus
\* one, the comma-separated list in input order otherwise.
UidSetDenotesInput ==
    (upc = "formatted" /\ uids # << >>) =>
        /\ uid_set[1].panic = FALSE
        /\ \A u \in UidValues :
               InUidSet(u, uid_set[1].value)
                   <=> \E i \in DOMAIN uids : uids[i] = u
        /\ IF Len(uids) = 1 THEN uid_set[1].value = <<Num(uids[1])>>
           ELSE IF \A i \in 2..Len(uids) : IsSuccessor(uids[i], uids[i - 1])
                THEN uid_set[1].value
                         = <<Num(uids[1]), Colon, Num(uids[Len(uids)])>>
                ELSE uid_set[1].value = join_uids(uids)

----------------------------------------------------------------------------
(* Properties of the IMAP actions *)

\* the commands of a complete call, in order
FixedOrder ==
    <<[name |-> "SELECT", arg |-> <<"INBOX">>],
      [name |-> "UID COPY",
       arg |-> <<imap_uid_set,
                 IF imap_fn = "delete_messages" THEN "[Gmail]/Trash"
                 ELSE "[Gmail]/Spam">>],
      [name |-> "UID STORE",
       arg |-> <<imap_uid_set, "+FLAGS.SILENT (\\Deleted)">>],
      [name |-> "EXPUNGE", arg |-> << >>]>>

\* C25: delete_messages and move_to_spam issue SELECT INBOX, UID COPY to the
\* destination folder, UID STORE +\Deleted, EXPUNGE in this order, each only
\* after the previous one succeeded; a failing step returns an error and
\* skips the later steps, an empty UID list issues no command and returns 0,
\* and success returns the number of UIDs passed in.
CommandsInFixedOrder ==
    /\ Len(commands) <= 4
    /\ \A i \in DOMAIN commands :
           /\ commands[i].name = FixedOrder[i].name
           /\ commands[i].arg = FixedOrder[i].arg
           /\ i > 1 => commands[i - 1].ok
    /\ (\E i \in DOMAIN commands : ~commands[i].ok) =>
           /\ ipc = "returned"
           /\ imap_result = Some(Err)
    /\ ipc = "returned" =>
           /\ imap_uids = << >> =>
                  commands = << >> /\ imap_result = Some(Ok(0))
           /\ imap_result[1].ok =>
                  /\ imap_result = Some(Ok(Len(imap_uids)))
                  /\ imap_uids # << >> =>
                         /\ Len(commands) = 4
                         /\ \A i \in DOMAIN commands : commands[i].ok

CopyFailedNothingDeleted ==
    /\ ipc = "returned"
    /\ Len(imap_uids) = 2
    /\ Len(commands) = 2
    /\ commands[2].name = "UID COPY"
    /\ ~commands[2].ok
    /\ imap_result = Some(Err)

----------------------------------------------------------------------------
(* Properties of fetch_headers_batch *)

\* the response carries a UID and header bytes that parse
Parsable(msg) ==
    /\ msg.uid # None
    /\ msg.header # None
    /\ msg.header[1].parses

\* C24: in fetch_headers_batch a message whose header bytes cannot be
\* parsed, or that lacks a UID or header, is skipped and logged: unless
\* uid_fetch or the response stream itself fails, the call returns Ok with
\* the headers of all other messages of the batch, in stream order.
MalformedMessagesAreSkipped ==
    (fpc = "returned" /\ fetch_uids # << >> /\ fetch_error = None) =>
        LET good == SelectSeq(responses, Parsable)
        IN  /\ fetch_result[1].ok
            /\ Len(fetch_result[1].value) = Len(good)
            /\ \A i \in DOMAIN good :
                   /\ fetch_result[1].value[i].uid = good[i].uid[1]
                   /\ fetch_result[1].value[i].from
                          = (IF good[i].header[1].from = None THEN << >>
                             ELSE good[i].header[1].from[1])
            /\ Len(warnings) = Len(responses) - Len(good)

MalformedBetweenTwoParsed ==
    /\ fpc = "returned"
    /\ fetch_error = None
    /\ Len(responses) = 3
    /\ Parsable(responses[1])
    /\ responses[2].uid # None
    /\ responses[2].header = Some([parses |-> FALSE])
    /\ Parsable(responses[3])
    /\ Len(fetch_result[1].value) = 2

----------------------------------------------------------------------------
(* Properties of select_senders *)

\* C26: select_senders returns exactly the senders whose option lines the
\* user picked, each picked line mapped back to the sender it was rendered
\* from, also when two senders share a display name or one name is a prefix
\* of another.
PickedSendersAreReturned ==
    (spc = "returned" /\ selected # None /\ selected[1].ok
       /\ sorted # << >>) =>
        selected[1].value = [k \in DOMAIN chosen |-> sorted[chosen[k]]]

----------------------------------------------------------------------------
(* Properties of Workflow::cleanup_sender *)

\* C29: when the plan calls for a one-click unsubscribe and it does not
\* succeed (non-success status, error, or unsafe URL), the sender is blocked
\* via a filter instead: every cleaned sender ends up unsubscribed or
\* blocked unless the filter creation itself fails.
FailedUnsubscribeFallsBackToBlock ==
    (wpc = "done" /\ filter_outcome # "failed") =>
        (cleanup_result.unsubscribed \/ cleanup_result.blocked)

----------------------------------------------------------------------------
(* Termination of batch_get_headers *)

\* C22: if every fetch attempt eventually returns, every batch_get_headers
\* call terminates for every batch size: every spawned task gets a permit
\* and ends as success or dropped, and when the call returns all 10 permits
\* are free again.
BatchTerminatesWithFreePermits ==
    /\ <>(call = "returned")
    /\ [](call = "returned" =>
            /\ permits = SemaphorePermits
            /\ TasksAt({"acquire", "fetch", "sleep"}) = {}
            /\ BagCardinality(tasks) = Len(message_ids))

ElevenTasksEndedOneDropped ==
    /\ call = "returned"
    /\ Len(message_ids) > SemaphorePermits
    /\ BagIn(ReturnedNone(1), tasks)
    /\ BagIn(ReturnedSome(1), tasks)
    /\ permits = SemaphorePermits

----------------------------------------------------------------------------
(* Properties of the batches of scan_inbox *)

RECURSIVE Flatten(_)
Flatten(chunks) ==
    IF chunks = << >> THEN << >> ELSE Head(chunks) \o Flatten(Tail(chunks))

RECURSIVE InFlight(_)
InFlight(p) ==
    IF p = << >> THEN 0 ELSE Head(p).running + InFlight(Tail(p))

\* C23: scan_inbox cuts the listed ids into consecutive batches of at most
\* 50, every id in exactly one batch and handed to the fetcher once, and
\* the batches are strictly sequential: while a task of a batch has not
\* finished no later batch exists, so no attempt of batch k+1 starts before
\* batch k is over and at most 10 fetches are in flight over the whole scan.
BatchesAreSequential ==
    /\ \A k \in DOMAIN handed :
           /\ Len(handed[k]) \in 1..50
           /\ k < Len(handed) =>
                  /\ Len(handed[k]) = 50
                  /\ progress[k].unstarted = 0
                  /\ progress[k].running = 0
    /\ Flatten(handed) = [i \in 1..Len(Flatten(handed)) |-> i]
    /\ ppc = "done" => Len(Flatten(handed)) = listed
    /\ InFlight(progress) <= 10

SecondBatchAfterFirst ==
    /\ Len(handed) = 2
    /\ listed = 52
    /\ progress[1].dropped = 1
    /\ progress[1].succeeded = 49
    /\ progress[2].running = 2

====
